---- MODULE Spec2Model ----
(***************************************************************************)
(* Luxtronik heat-pump plugin (src/plugin.py): the protocol client         *)
(* (initialize_connection, send_message, process_socket_message) and the   *)
(* dispatcher built on it (update, update_all, onStart, onHeartbeat,       *)
(* onCommand, onNotification, onStop).                                     *)
(*                                                                         *)
(* The plugin is single-threaded: the host calls one callback at a time.   *)
(* A callback is split into steps at every socket operation, so that the   *)
(* order of connects, sends, receives and closes is visible; pc is the     *)
(* position inside the running callback and cb names that callback.        *)
(* The peer and the network are the environment: every connect, send and   *)
(* recv either succeeds or raises, and every word received is chosen by    *)
(* the peer.                                                               *)
(***************************************************************************)
EXTENDS Integers, Sequences, FiniteSets, TLC

\* ------------------------------------------------------------------ bounds
\* Largest register count the peer declares in a response header.
MaxCount == 2
\* Register values the peer sends are drawn from 0..MaxWord.
MaxWord == 1

\* --------------------------------------------------------- program tables
\* SOCKET_COMMANDS (plugin.py:92-97)
SOCKET_COMMANDS ==
    [c \in {"WRIT_PARAMS", "READ_PARAMS", "READ_CALCUL", "READ_VISIBI"} |->
        CASE c = "WRIT_PARAMS" -> 3002
          [] c = "READ_PARAMS" -> 3003
          [] c = "READ_CALCUL" -> 3004
          [] c = "READ_VISIBI" -> 3005]

\* range(lo, hi, step) of Python, as a sequence (step > 0).
PyRange(lo, hi, step) ==
    [i \in 1..((hi - lo + step - 1) \div step) |-> lo + (i - 1) * step]

\* The value of self.available_writes after prepare_devices_list
\* (plugin.py:574-581): address -> list of legal raw values.  Field() has the
\* empty list.
AvailableWrites ==
    [a \in {-1, 1, 3, 4, 105, 108} |->
        CASE a = -1  -> << >>
          [] a = 1   -> PyRange(-50, 51, 5)
          [] a = 3   -> <<0, 1, 2, 3, 4>>
          [] a = 4   -> <<0, 1, 2, 3, 4>>
          [] a = 105 -> PyRange(300, 651, 5)
          [] a = 108 -> <<0, 1>>]

\* The entries of devices_parameters_list that carry a write conversion
\* (plugin.py:618-619, 646-652, 655-661, 664-665, 667-676), keyed by the unit
\* id dev_idx + 1 that prepare_devices_list gives them (plugin.py:791-798):
\* this is dev_lists['WRIT_PARAMS'].  conv names the write callback; arg is
\* its bound argument (the reciprocal of the float divider 1/10 for
\* level_with_divider, the divider 10 for the selector; idx is the
\* available_writes key of the selector).
WritUnits ==
    [u \in {7, 14, 15, 16, 17} |->
        CASE u = 7  -> [address |-> 105, conv |-> "level_with_divider", arg |-> 10, idx |-> 0]
          [] u = 14 -> [address |-> 3, conv |-> "available_writes_level_with_divider", arg |-> 10, idx |-> 3]
          [] u = 15 -> [address |-> 4, conv |-> "available_writes_level_with_divider", arg |-> 10, idx |-> 4]
          [] u = 16 -> [address |-> 108, conv |-> "command_to_number", arg |-> 0, idx |-> 0]
          [] u = 17 -> [address |-> 1, conv |-> "level_with_divider", arg |-> 10, idx |-> 0]]

\* ------------------------------------------------------------- input sets
\* Units the host sends commands for: a read-only unit (1), the writable
\* units, and a unit the plugin does not know (99).
CmdUnits == {1, 7, 14, 16, 17, 99}
CmdCommands == {"On", "Off", "Set Level"}
\* Levels the host sends (whole numbers).
CmdLevels == {-10, 0, 10, 40, 50, 70}
\* Command codes the peer may echo: every real code and one that is none.
PeerEchoes == {SOCKET_COMMANDS[c] : c \in DOMAIN SOCKET_COMMANDS} \cup {0}
PeerStats == {0, 1}
PeerCounts == (-1)..MaxCount
PeerWords == 0..MaxWord

VARIABLES
    phase,            \* "new" before onStart, "running", "stopped" after onStop
    cb,               \* the host callback that is running, "none" when idle
    pc,               \* position inside the running callback
    available_writes, \* self.available_writes
    active,           \* self.active_connection: "none" (None) or "open"
    orphans,          \* open sockets the plugin holds no reference to any more
    connUse,          \* send_message calls made on the socket in active_connection
    wire,             \* words sent ("s") and received ("r") on the newest socket
    command,          \* process_socket_message: argument command
    address,          \* process_socket_message: argument address
    value,            \* process_socket_message: argument value
    attempt,          \* process_socket_message: loop variable of range(2)
    caller,           \* who called process_socket_message
    result,           \* what process_socket_message returns
    stat,             \* send_message: local stat
    length,           \* send_message: local length
    data,             \* send_message: local data_list
    idx,              \* update_all: position in ['READ_CALCUL', 'READ_PARAMS']
    delivered,        \* frames handed to the device loop during this callback
    errs,             \* Domoticz.Error calls during this process_socket_message call
    opens,            \* connect attempts during this process_socket_message call
    desync,           \* attempt (1, 2) of this call that saw an echo mismatch, 0 if none
    held,             \* sockets this call opened and has not closed yet
    connFails,        \* connect() failures during this process_socket_message call
    rejected,         \* this callback had a write refused by validation
    cbOpens,          \* connect attempts during this callback
    cbIO,             \* a word was sent or received during this callback
    passed,           \* <<address, value>> as the caller passed them to process_socket_message
    cbWrites,         \* complete write requests sent to the peer during this callback
    writeOk,          \* the write call of this onCommand returned a result of send_message
    argument_list,    \* onCommand: Unit and Level of the running call
    probe,            \* the connection attempt of onStart: "none", "ok" or "failed"
    dev,              \* the device update_device works on: ID, Type, SubType
    stored,           \* Devices[Unit].nValue and Devices[Unit].sValue
    last_update_times,\* DeviceUpdateTracker.last_update_times
    device_types,     \* DeviceUpdateTracker.device_types
    now,              \* the clock read by time.time()
    decision,         \* the last call of needs_update: arguments, state before, result
    lastAccepted,     \* time of the last update needs_update accepted, -1 if none
    debug_level,      \* self.debug_level
    Devices,          \* the unit ids the host holds a device for
    frame,            \* update_all: result of process_socket_message: count and registers
    pollPc,           \* position inside update_all
    pollIdx,          \* update_all: position in ['READ_CALCUL', 'READ_PARAMS']
    queue,            \* update_all: units of dev_lists[command_type] still to come
    outcome,          \* what this cycle did with each unit, with which frame and candidate
    candidate,        \* what the read conversion called last returned
    hostErrs,         \* Domoticz.Error calls during this cycle
    hostLines,        \* Domoticz.Status and Domoticz.Debug calls during this cycle
    exchanges,        \* the results update_all got in this cycle: category and count
    table_names,      \* the names of devices_parameters_list, in order
    units,            \* self.units: name -> unit id
    dev_lists,        \* self.dev_lists: category -> unit ids, in order
    dev_idx,          \* entries of the table prepare_devices_list has registered
    regPc             \* "idle", "building" or "built"

wireVars == <<active, orphans, connUse, wire>>
callVars == <<command, address, value, attempt, caller, result>>
smVars == <<stat, length, data>>
histVars == <<errs, opens, desync, held, connFails, rejected, cbOpens, cbIO>>
noteVars == <<passed, cbWrites, writeOk>>
cmdVars == <<argument_list, probe>>
protoVars == <<phase, cb, pc, available_writes, wireVars, callVars, smVars, idx,
               delivered, histVars, noteVars, cmdVars>>
trkVars == <<dev, stored, last_update_times, device_types, now, decision,
             lastAccepted>>
pollVars == <<debug_level, Devices, frame, pollPc, pollIdx, queue, outcome,
              candidate, hostErrs, hostLines, exchanges>>
regVars == <<table_names, units, dev_lists, dev_idx, regPc>>
vars == <<protoVars, trkVars, pollVars, regVars>>

\* No result yet (the call has not returned).
NoResult == [none |-> TRUE]
\* No onCommand is running.
NoCmd == [Unit |-> 0, Level |-> 0]
NoDelivery == [c \in {"READ_CALCUL", "READ_PARAMS"} |-> << >>]

\* ------------------------------------------------------------ tracker state
\* time.time() when the model starts to look (seconds since 1970).
StartTime == 1000
\* How far the clock runs on from StartTime.
MaxElapsed == 600
\* DeviceUpdateTracker.graph_update_interval, in seconds.
graph_update_interval == 300

NoDecision ==
    [called |-> FALSE, cand |-> [nValue |-> 0, sValue |-> << >>],
     before |-> [nValue |-> 0, sValue |-> << >>], at |-> 0, recorded |-> FALSE,
     last |-> 0, prevAccepted |-> -1, is_graphing |-> FALSE, update |-> FALSE,
     reason |-> "", failed |-> FALSE]

\* No device is looked at and no DeviceUpdateTracker exists.
NoTracker ==
    /\ dev = [ID |-> 0, Type |-> 0, SubType |-> 0]
    /\ stored = [nValue |-> 0, sValue |-> << >>]
    /\ last_update_times = << >>
    /\ device_types = << >>
    /\ now = StartTime
    /\ decision = NoDecision
    /\ lastAccepted = -1

\* No frame, no candidate.
NoFrame == [command |-> "", length |-> 0, at |-> << >>]
NoCandidate ==
    [raised |-> FALSE, hasN |-> FALSE, nValue |-> 0, hasS |-> FALSE,
     sValue |-> << >>]

\* update_all is not running.
NoPoll ==
    /\ debug_level = 0
    /\ Devices = {}
    /\ frame = NoFrame
    /\ pollPc = "off"
    /\ pollIdx = 0
    /\ queue = << >>
    /\ outcome = << >>
    /\ candidate = NoCandidate
    /\ hostErrs = 0
    /\ hostLines = 0
    /\ exchanges = << >>

\* BasePlugin.__init__ (plugin.py:562-568): no unit, and an empty dev_lists
\* entry for every command.
NoDevLists == [c \in DOMAIN SOCKET_COMMANDS |-> << >>]
NoRegistry ==
    /\ table_names = << >>
    /\ units = << >>
    /\ dev_lists = NoDevLists
    /\ dev_idx = 0
    /\ regPc = "idle"

Init ==
    /\ phase = "new"
    /\ cb = "none"
    /\ pc = "idle"
    /\ available_writes = << >>
    /\ active = "none"
    /\ orphans = 0
    /\ connUse = 0
    /\ wire = << >>
    /\ command = ""
    /\ address = 0
    /\ value = 0
    /\ attempt = 0
    /\ caller = ""
    /\ result = NoResult
    /\ stat = 0
    /\ length = 0
    /\ data = << >>
    /\ idx = 0
    /\ delivered = NoDelivery
    /\ errs = 0
    /\ opens = 0
    /\ desync = 0
    /\ held = 0
    /\ connFails = 0
    /\ rejected = FALSE
    /\ cbOpens = 0
    /\ cbIO = FALSE
    /\ passed = <<0, 0>>
    /\ cbWrites = 0
    /\ writeOk = FALSE
    /\ argument_list = NoCmd
    /\ probe = "none"
    /\ NoTracker
    /\ NoPoll
    /\ NoRegistry

\* ------------------------------------------------------- write conversions
\* int(x / d) of Python for whole x and d > 0: the quotient truncated toward 0.
Trunc(x, d) == IF x >= 0 THEN x \div d ELSE -((-x) \div d)

\* command_to_number (plugin.py:404-406)
command_to_number(Command) == IF Command = "On" THEN 1 ELSE 0

\* level_with_divider (plugin.py:416-418): int(Level / divider) with the float
\* divider 1/10, given here by its reciprocal.  For the whole Levels of
\* CmdLevels the float quotient Level / 0.1 is the exact whole number
\* Level * 10, so int() changes nothing.
level_with_divider(recip, Level) == Level * recip

\* A list lookup that counts from 1.
PyIndexFromOne(list, i) ==
    IF i >= 1 /\ i <= Len(list) THEN [ok |-> TRUE, val |-> list[i]]
    ELSE [ok |-> FALSE, val |-> 0]

\* Python's list[i]: a negative index counts from the end; ok is FALSE where
\* Python raises IndexError.
PyIndex(list, i) ==
    LET n == Len(list) IN
    IF i >= 0 /\ i < n THEN [ok |-> TRUE, val |-> list[i + 1]]
    ELSE IF i < 0 /\ i >= -n THEN [ok |-> TRUE, val |-> list[n + i + 1]]
    ELSE [ok |-> FALSE, val |-> 0]

\* available_writes_level_with_divider (plugin.py:409-413)
available_writes_level_with_divider(divider, available_writes_idx, Level) ==
    PyIndex(available_writes[available_writes_idx], Trunc(Level, divider))

\* A lookup in dev_lists['WRIT_PARAMS'] that takes a unit it does not hold
\* for the cooling switch.
prepare_data_to_sendAnyUnit(Unit, Command, Level) ==
    [ok |-> TRUE, address |-> 108, value |-> command_to_number(Command)]

\* Unit.prepare_data_to_send as onCommand calls it (plugin.py:787-789,
\* 1164-1166): ok is FALSE where the lookup dev_lists['WRIT_PARAMS'][Unit] or
\* the write callback raises.
prepare_data_to_send(Unit, Command, Level) ==
    IF Unit \notin DOMAIN WritUnits
    THEN [ok |-> FALSE, address |-> 0, value |-> 0]
    ELSE LET w == WritUnits[Unit] IN
         CASE w.conv = "command_to_number" ->
                [ok |-> TRUE, address |-> w.address, value |-> command_to_number(Command)]
           [] w.conv = "level_with_divider" ->
                [ok |-> TRUE, address |-> w.address, value |-> level_with_divider(w.arg, Level)]
           [] w.conv = "available_writes_level_with_divider" ->
                LET r == available_writes_level_with_divider(w.arg, w.idx, Level) IN
                [ok |-> r.ok, address |-> w.address, value |-> r.val]

\* ---------------------------------------------------------- protocol client
\* A validation that lets every value through.
ValidWriteAny(a, v) == TRUE

\* The validation of a write in process_socket_message (plugin.py:928-930): the
\* lookup raises KeyError for an unknown address, and the value must be a
\* member of the list.
ValidWrite(a, v) ==
    /\ a \in DOMAIN available_writes
    /\ \E i \in DOMAIN available_writes[a] : available_writes[a][i] = v

\* A loop that runs once more: range(3).
RetryAllowedThrice(att) == att < 3

\* for attempt in range(2) (plugin.py:935): the loop body runs for attempt.
RetryAllowed(att) == att < 2

\* A send_message that forgets the value of a write.
RequestWordsNoValue(code, a, v) == <<code, a>>

\* The words send_message sends, in order (plugin.py:886-892).
RequestWords(code, a, v) ==
    IF code = SOCKET_COMMANDS["WRIT_PARAMS"] THEN <<code, a, v>> ELSE <<code, a>>

\* A send_message that accepts any echo.
EchoMatchesAny(received, code) == TRUE

\* The echo verification of send_message (plugin.py:895-897).
EchoMatches(received, code) == received = code

\* A header that is the single count field for every read command.
HeaderFieldsCountOnly(code) ==
    IF code = SOCKET_COMMANDS["READ_PARAMS"] \/ code = SOCKET_COMMANDS["READ_CALCUL"]
    THEN <<"length">> ELSE << >>

\* The header fields send_message reads after the echo (plugin.py:903-907).
HeaderFields(code) ==
    IF code = SOCKET_COMMANDS["READ_PARAMS"] THEN <<"length">>
    ELSE IF code = SOCKET_COMMANDS["READ_CALCUL"] THEN <<"stat", "length">>
    ELSE << >>

\* A data loop that runs once more than the declared count.
MoreDataInclusive(n, len) == n <= len

\* Reading the frame (plugin.py:910-911): after n register values, the
\* comprehension over range(length) under "if length > 0" reads another one.
MoreData(n, len) == n < len

\* The result of the outer except of process_socket_message (plugin.py:957).
EmptyResult(cmd) == [command |-> cmd, stat |-> 0, length |-> 0, data |-> << >>]

\* A finally block that leaves the connection as it is.
AfterFinallyKeep(conn) == conn

\* The finally block of process_socket_message (plugin.py:946-949): the value
\* of active_connection after it.
AfterFinally(conn) == "none"

Sent(w) == SelectSeq(w, LAMBDA e : e.d = "s")
Received(w) == SelectSeq(w, LAMBDA e : e.d = "r")
NOpen == (IF active = "open" THEN 1 ELSE 0) + orphans

\* initialize_connection (plugin.py:858-877): a new socket object replaces
\* the one in active_connection, then connect() returns (ok) or raises; on a
\* failure the new socket is closed and active_connection is None.  A socket
\* that was still open in active_connection is only dropped, never closed by
\* the plugin: the runtime may finalise it at once (fin) or leave it open.
initialize_connection(ok, fin) ==
    /\ orphans' = IF active = "open" /\ ~fin THEN orphans + 1 ELSE orphans
    /\ active' = IF ok THEN "open" ELSE "none"
    /\ wire' = << >>

\* A call process_socket_message(cmd, a, v) made by from.
CallPsm(cmd, a, v, from) ==
    /\ command' = cmd
    /\ passed' = <<a, v>>
    /\ address' = a
    /\ value' = v
    /\ attempt' = 0
    /\ caller' = from
    /\ result' = NoResult
    /\ stat' = 0
    /\ length' = 0
    /\ data' = << >>
    /\ errs' = 0
    /\ opens' = 0
    /\ desync' = 0
    /\ held' = 0
    /\ connFails' = 0
    /\ pc' = "psm_enter"

\* process_socket_message, validation (plugin.py:923-932).
PsmEnter ==
    /\ pc = "psm_enter"
    /\ IF command \notin DOMAIN SOCKET_COMMANDS
          \/ (command = "WRIT_PARAMS" /\ ~ValidWrite(address, value))
       THEN \* ValueError / KeyError -> outer except (plugin.py:953-957)
            /\ errs' = errs + 1
            /\ result' = EmptyResult(command)
            /\ rejected' = TRUE
            /\ pc' = "psm_ret"
            /\ UNCHANGED <<address, value>>
       ELSE /\ address' = IF command = "WRIT_PARAMS" THEN address ELSE 0
            /\ value' = IF command = "WRIT_PARAMS" THEN value ELSE 0
            /\ pc' = "psm_attempt"
            /\ UNCHANGED <<errs, result, rejected>>
    /\ UNCHANGED <<phase, cb, available_writes, wireVars, command, attempt,
                   caller, smVars, idx, delivered, opens, desync, held,
                   connFails, cbOpens, cbIO>>
    /\ UNCHANGED noteVars
    /\ UNCHANGED cmdVars
    /\ UNCHANGED <<trkVars, pollVars, regVars>>

\* One pass of the retry loop up to the connect (plugin.py:935-937, 946-949).
PsmConnect ==
    /\ pc = "psm_attempt"
    /\ RetryAllowed(attempt)
    /\ \E ok \in BOOLEAN, fin \in BOOLEAN :
        /\ initialize_connection(ok, fin)
        /\ opens' = opens + 1
        /\ cbOpens' = cbOpens + 1
        /\ IF ok
           THEN /\ connUse' = 1      \* send_message is called on the new socket
                /\ held' = held + 1
                /\ pc' = "sm_send"
                /\ UNCHANGED <<errs, attempt, connFails>>
           ELSE /\ connUse' = 0
                /\ errs' = errs + 1  \* Domoticz.Error of initialize_connection
                /\ connFails' = connFails + 1
                /\ attempt' = attempt + 1
                /\ pc' = "psm_attempt"
                /\ UNCHANGED held
    /\ UNCHANGED <<phase, cb, available_writes, command, address, value,
                   caller, result, smVars, idx, delivered, desync, rejected,
                   cbIO>>
    /\ UNCHANGED noteVars
    /\ UNCHANGED cmdVars
    /\ UNCHANGED <<trkVars, pollVars, regVars>>

\* send_message raised: its except reports and returns None (plugin.py:
\* 915-919); process_socket_message finds no result, runs finally and goes to
\* the next attempt (plugin.py:939, 946-949).
FailAttempt ==
    /\ errs' = errs + 1
    /\ active' = AfterFinally(active)
    /\ held' = IF active = "open" /\ active' = "none" THEN held - 1 ELSE held
    /\ attempt' = attempt + 1
    /\ stat' = 0
    /\ length' = 0
    /\ data' = << >>
    /\ pc' = "psm_attempt"

\* send_message: one send (plugin.py:887-892).
SmSend ==
    /\ pc = "sm_send"
    /\ LET words == RequestWords(SOCKET_COMMANDS[command], address, value)
           n == Len(Sent(wire))
       IN \/ /\ wire' = Append(wire, [d |-> "s", w |-> words[n + 1]])
             /\ cbIO' = TRUE
             /\ pc' = IF n + 1 < Len(words) THEN "sm_send" ELSE "sm_echo"
             /\ cbWrites' = IF command = "WRIT_PARAMS" /\ n + 1 = Len(words)
                             THEN cbWrites + 1 ELSE cbWrites
             /\ UNCHANGED <<active, errs, held, attempt, smVars>>
          \/ /\ FailAttempt
             /\ UNCHANGED <<wire, cbIO, cbWrites>>
    /\ UNCHANGED <<phase, cb, available_writes, orphans, connUse, command,
                   address, value, caller, result, idx, delivered, opens,
                   desync, connFails, rejected, cbOpens>>
    /\ UNCHANGED <<passed, writeOk>>
    /\ UNCHANGED cmdVars
    /\ UNCHANGED <<trkVars, pollVars, regVars>>

\* send_message: read and verify the echo (plugin.py:895-901).
SmEcho ==
    /\ pc = "sm_echo"
    /\ \/ \E e \in PeerEchoes :
            /\ wire' = Append(wire, [d |-> "r", w |-> e])
            /\ cbIO' = TRUE
            /\ IF EchoMatches(e, SOCKET_COMMANDS[command])
               THEN /\ pc' = IF HeaderFields(SOCKET_COMMANDS[command]) = << >>
                             THEN "sm_return" ELSE "sm_hdr"
                    /\ stat' = 0
                    /\ length' = 0
                    /\ data' = << >>
                    /\ UNCHANGED <<active, errs, held, attempt, desync>>
               ELSE /\ FailAttempt
                    /\ desync' = attempt + 1
       \/ /\ FailAttempt
          /\ UNCHANGED <<wire, cbIO, desync>>
    /\ UNCHANGED <<phase, cb, available_writes, orphans, connUse, command,
                   address, value, caller, result, idx, delivered, opens,
                   connFails, rejected, cbOpens>>
    /\ UNCHANGED noteVars
    /\ UNCHANGED cmdVars
    /\ UNCHANGED <<trkVars, pollVars, regVars>>

\* send_message: read one header field (plugin.py:903-907).
SmHdr ==
    /\ pc = "sm_hdr"
    /\ LET fields == HeaderFields(SOCKET_COMMANDS[command])
           h == Len(Received(wire)) - 1
       IN \/ \E x \in IF fields[h + 1] = "stat" THEN PeerStats ELSE PeerCounts :
               /\ wire' = Append(wire, [d |-> "r", w |-> x])
               /\ cbIO' = TRUE
               /\ stat' = IF fields[h + 1] = "stat" THEN x ELSE stat
               /\ length' = IF fields[h + 1] = "length" THEN x ELSE length
               /\ pc' = IF h + 1 < Len(fields) THEN "sm_hdr"
                        ELSE IF MoreData(0, length') THEN "sm_data" ELSE "sm_return"
               /\ UNCHANGED <<active, errs, held, attempt, data>>
          \/ /\ FailAttempt
             /\ UNCHANGED <<wire, cbIO>>
    /\ UNCHANGED <<phase, cb, available_writes, orphans, connUse, command,
                   address, value, caller, result, idx, delivered, opens,
                   desync, connFails, rejected, cbOpens>>
    /\ UNCHANGED noteVars
    /\ UNCHANGED cmdVars
    /\ UNCHANGED <<trkVars, pollVars, regVars>>

\* send_message: read one register value (plugin.py:910-911).
SmData ==
    /\ pc = "sm_data"
    /\ \/ \E x \in PeerWords :
            /\ wire' = Append(wire, [d |-> "r", w |-> x])
            /\ cbIO' = TRUE
            /\ data' = Append(data, x)
            /\ pc' = IF MoreData(Len(data) + 1, length) THEN "sm_data" ELSE "sm_return"
            /\ UNCHANGED <<active, errs, held, attempt, stat, length>>
       \/ /\ FailAttempt
          /\ UNCHANGED <<wire, cbIO>>
    /\ UNCHANGED <<phase, cb, available_writes, orphans, connUse, command,
                   address, value, caller, result, idx, delivered, opens,
                   desync, connFails, rejected, cbOpens>>
    /\ UNCHANGED noteVars
    /\ UNCHANGED cmdVars
    /\ UNCHANGED <<trkVars, pollVars, regVars>>

\* send_message returns its result and process_socket_message returns it
\* through finally (plugin.py:913, 939-942, 946-949).
SmReturn ==
    /\ pc = "sm_return"
    /\ result' = [command |-> SOCKET_COMMANDS[command], stat |-> stat,
                  length |-> length, data |-> data]
    /\ active' = AfterFinally(active)
    /\ held' = IF active = "open" /\ active' = "none" THEN held - 1 ELSE held
    /\ pc' = "psm_ret"
    /\ UNCHANGED <<phase, cb, available_writes, orphans, connUse, wire,
                   command, address, value, attempt, caller, smVars, idx,
                   delivered, errs, opens, desync, connFails, rejected, cbOpens,
                   cbIO>>
    /\ UNCHANGED noteVars
    /\ UNCHANGED cmdVars
    /\ UNCHANGED <<trkVars, pollVars, regVars>>

\* An exhausted loop whose exception is not turned into the empty result:
\* the call ends without a result and without a report.
PsmExhaustedNoResult ==
    /\ pc = "psm_attempt"
    /\ ~RetryAllowed(attempt)
    /\ pc' = "psm_ret"
    /\ UNCHANGED <<phase, cb, available_writes, wireVars, callVars, smVars,
                   idx, delivered, histVars>>
    /\ UNCHANGED noteVars
    /\ UNCHANGED cmdVars
    /\ UNCHANGED <<trkVars, pollVars, regVars>>

\* The loop ended without a result: raise, outer except (plugin.py:951-957).
PsmExhausted ==
    /\ pc = "psm_attempt"
    /\ ~RetryAllowed(attempt)
    /\ errs' = errs + 1
    /\ result' = EmptyResult(command)
    /\ pc' = "psm_ret"
    /\ UNCHANGED <<phase, cb, available_writes, wireVars, command, address,
                   value, attempt, caller, smVars, idx, delivered, opens,
                   desync, held, connFails, rejected, cbOpens, cbIO>>
    /\ UNCHANGED noteVars
    /\ UNCHANGED cmdVars
    /\ UNCHANGED <<trkVars, pollVars, regVars>>

\* ---------------------------------------------------------------- dispatcher
\* The device loop of update and update_all runs only for a result with a
\* positive count, over that result's frame (plugin.py:968-990, 1010-1027).
DeviceLoop(cmd, res) ==
    delivered' = IF res.length > 0 THEN [delivered EXCEPT ![cmd] = res.data]
                 ELSE delivered

\* update_all calls process_socket_message(command_type) for the entry at
\* position i of ['READ_CALCUL', 'READ_PARAMS'] (plugin.py:1008-1009).
PollOrder == <<"READ_CALCUL", "READ_PARAMS">>

StartUpdateAll ==
    /\ idx' = 1
    /\ CallPsm(PollOrder[1], 0, 0, "update_all")

\* The callback is about to return to the host.
ToReturn ==
    /\ pc' = "cb_ret"

\* update_all after process_socket_message returned (plugin.py:1008-1031).
RetUpdateAll ==
    /\ pc = "psm_ret"
    /\ caller = "update_all"
    /\ DeviceLoop(command, result)
    /\ IF idx < Len(PollOrder)
       THEN /\ idx' = idx + 1
            /\ CallPsm(PollOrder[idx + 1], 0, 0, "update_all")
       ELSE /\ ToReturn
            /\ UNCHANGED <<idx, callVars, smVars, errs, opens, desync, held,
                           connFails, passed>>
    /\ UNCHANGED <<phase, cb, available_writes, wireVars, rejected, cbOpens,
                   cbIO, cbWrites, writeOk>>
    /\ UNCHANGED cmdVars
    /\ UNCHANGED <<trkVars, pollVars, regVars>>

\* An onCommand that returns after the write without calling update.
RetOnCommandNoPoll ==
    /\ pc = "psm_ret"
    /\ caller = "onCommand"
    /\ writeOk' = (attempt < 2 /\ ~rejected)
    /\ pc' = "cb_ret"
    /\ UNCHANGED <<phase, cb, available_writes, wireVars, callVars, smVars,
                   idx, delivered, histVars, passed, cbWrites>>
    /\ UNCHANGED cmdVars
    /\ UNCHANGED <<trkVars, pollVars, regVars>>

\* onCommand after the write call returned: update('READ_PARAMS') follows
\* whatever the call returned (plugin.py:1169-1172, 966).
RetOnCommand ==
    /\ pc = "psm_ret"
    /\ caller = "onCommand"
    /\ writeOk' = (attempt < 2 /\ ~rejected)
    /\ CallPsm("READ_PARAMS", 0, 0, "update")
    /\ UNCHANGED <<phase, cb, available_writes, wireVars, idx, delivered,
                   rejected, cbOpens, cbIO, cbWrites>>
    /\ UNCHANGED cmdVars
    /\ UNCHANGED <<trkVars, pollVars, regVars>>

\* update after process_socket_message returned (plugin.py:966-995).
RetUpdate ==
    /\ pc = "psm_ret"
    /\ caller = "update"
    /\ DeviceLoop(command, result)
    /\ ToReturn
    /\ UNCHANGED <<phase, cb, available_writes, wireVars, callVars, smVars,
                   idx, errs, opens, desync, held, connFails, rejected,
                   cbOpens, cbIO>>
    /\ UNCHANGED noteVars
    /\ UNCHANGED cmdVars
    /\ UNCHANGED <<trkVars, pollVars, regVars>>

\* The callback returns to the host; its locals and the history of the
\* callback are dropped.
Return ==
    /\ pc = "cb_ret"
    /\ pc' = "idle"
    /\ cb' = "none"
    /\ connUse' = IF active = "none" THEN 0 ELSE connUse
    /\ wire' = IF active = "none" THEN << >> ELSE wire
    /\ command' = ""
    /\ address' = 0
    /\ value' = 0
    /\ attempt' = 0
    /\ caller' = ""
    /\ result' = NoResult
    /\ stat' = 0
    /\ length' = 0
    /\ data' = << >>
    /\ idx' = 0
    /\ delivered' = NoDelivery
    /\ errs' = 0
    /\ opens' = 0
    /\ desync' = 0
    /\ held' = 0
    /\ connFails' = 0
    /\ rejected' = FALSE
    /\ cbOpens' = 0
    /\ cbIO' = FALSE
    /\ passed' = <<0, 0>>
    /\ cbWrites' = 0
    /\ writeOk' = FALSE
    /\ argument_list' = NoCmd
    /\ UNCHANGED <<phase, available_writes, active, orphans, probe>>
    /\ UNCHANGED <<trkVars, pollVars, regVars>>

\* ------------------------------------------------------------ host callbacks
\* An onStart that goes on to update_all whatever the connection attempt gave.
OnStartPollAnyway ==
    /\ pc = "idle"
    /\ phase = "new"
    /\ phase' = "running"
    /\ cb' = "onStart"
    /\ available_writes' = AvailableWrites
    /\ \E ok \in BOOLEAN :
        /\ initialize_connection(ok, TRUE)
        /\ probe' = IF ok THEN "ok" ELSE "failed"
        /\ connUse' = 0
        /\ cbOpens' = cbOpens + 1
        /\ StartUpdateAll
        /\ UNCHANGED <<delivered, rejected, cbIO>>
    /\ UNCHANGED <<cbWrites, writeOk, argument_list>>
    /\ UNCHANGED <<trkVars, pollVars, regVars>>

\* onStart (plugin.py:1047-1114): create_devices builds available_writes,
\* then the connection is probed; update_all runs only if the probe connected
\* and it runs with the probe's socket still in active_connection.
OnStart ==
    /\ pc = "idle"
    /\ phase = "new"
    /\ phase' = "running"
    /\ cb' = "onStart"
    /\ available_writes' = AvailableWrites
    /\ \E ok \in BOOLEAN :
        /\ initialize_connection(ok, TRUE)
        /\ probe' = IF ok THEN "ok" ELSE "failed"
        /\ connUse' = 0
        /\ cbOpens' = cbOpens + 1
        /\ IF ok
           THEN /\ StartUpdateAll
                /\ UNCHANGED <<delivered, rejected, cbIO>>
           ELSE /\ ToReturn
                /\ UNCHANGED <<callVars, smVars, idx, delivered, errs, opens,
                               desync, held, connFails, rejected, cbIO, passed>>
    /\ UNCHANGED <<cbWrites, writeOk, argument_list>>
    /\ UNCHANGED <<trkVars, pollVars, regVars>>

\* onHeartbeat (plugin.py:1181-1185)
OnHeartbeat ==
    /\ pc = "idle"
    /\ phase = "running"
    /\ cb' = "onHeartbeat"
    /\ StartUpdateAll
    /\ UNCHANGED <<phase, available_writes, wireVars, delivered, rejected,
                   cbOpens, cbIO, cbWrites, writeOk>>
    /\ UNCHANGED cmdVars
    /\ UNCHANGED <<trkVars, pollVars, regVars>>

\* onNotification (plugin.py:1187-1218): force is Subject.lower() == "force
\* update".
OnNotification(force) ==
    /\ pc = "idle"
    /\ phase = "running"
    /\ cb' = "onNotification"
    /\ IF force
       THEN StartUpdateAll
       ELSE /\ ToReturn
            /\ UNCHANGED <<callVars, smVars, idx, errs, opens, desync, held,
                           connFails, passed>>
    /\ UNCHANGED <<phase, available_writes, wireVars, delivered, rejected,
                   cbOpens, cbIO, cbWrites, writeOk>>
    /\ UNCHANGED cmdVars
    /\ UNCHANGED <<trkVars, pollVars, regVars>>

\* onCommand (plugin.py:1150-1179): an exception of prepare_data_to_send is
\* caught by the except of onCommand, which returns.
OnCommand(Unit, Command, Level) ==
    /\ pc = "idle"
    /\ phase = "running"
    /\ cb' = "onCommand"
    /\ argument_list' = [Unit |-> Unit, Level |-> Level]
    /\ LET d == prepare_data_to_send(Unit, Command, Level) IN
       IF d.ok
       THEN CallPsm("WRIT_PARAMS", d.address, d.value, "onCommand")
       ELSE /\ ToReturn
            /\ UNCHANGED <<callVars, smVars, errs, opens, desync, held,
                           connFails, passed>>
    /\ UNCHANGED <<phase, available_writes, wireVars, idx, delivered, rejected,
                   cbOpens, cbIO, cbWrites, writeOk, probe>>
    /\ UNCHANGED <<trkVars, pollVars, regVars>>

\* onStop (plugin.py:1116-1130)
OnStop ==
    /\ pc = "idle"
    /\ phase = "running"
    /\ phase' = "stopped"
    /\ cb' = "onStop"
    /\ active' = "none"
    /\ ToReturn
    /\ UNCHANGED <<available_writes, orphans, connUse, wire, callVars, smVars,
                   idx, delivered, histVars>>
    /\ UNCHANGED noteVars
    /\ UNCHANGED cmdVars
    /\ UNCHANGED <<trkVars, pollVars, regVars>>

Next ==
    \/ OnStart
    \/ OnHeartbeat
    \/ \E force \in BOOLEAN : OnNotification(force)
    \/ \E u \in CmdUnits, c \in CmdCommands, l \in CmdLevels : OnCommand(u, c, l)
    \/ OnStop
    \/ PsmEnter
    \/ PsmConnect
    \/ SmSend
    \/ SmEcho
    \/ SmHdr
    \/ SmData
    \/ SmReturn
    \/ PsmExhausted
    \/ RetUpdateAll
    \/ RetOnCommand
    \/ RetUpdate
    \/ Return

Spec == Init /\ [][Next]_vars

\* The steps of a running callback.  The plugin is single-threaded and every
\* socket has a timeout of 5 s (plugin.py:862), so a connect, send or recv
\* returns or raises and the callback goes on to its next step.
Steps ==
    \/ PsmEnter
    \/ PsmConnect
    \/ SmSend
    \/ SmEcho
    \/ SmHdr
    \/ SmData
    \/ SmReturn
    \/ PsmExhausted
    \/ RetUpdateAll
    \/ RetOnCommand
    \/ RetUpdate
    \/ Return

\* Commands of the host, one of each kind: for a read-only unit, for a
\* selector with a level of its list and with one beyond it.
LiveCmds == {<<1, 0>>, <<14, 10>>, <<14, 50>>}

NextLive ==
    \/ OnStart
    \/ OnHeartbeat
    \/ \E force \in BOOLEAN : OnNotification(force)
    \/ \E c \in LiveCmds : OnCommand(c[1], "Set Level", c[2])
    \/ OnStop
    \/ Steps

\* The plugin with callbacks that keep running once the host called them.
SpecLive == Init /\ [][NextLive]_vars /\ WF_vars(Steps)

\* ------------------------------------------- process_socket_message alone
\* One call process_socket_message(command, address, value) with every
\* command of SOCKET_COMMANDS and arguments the callbacks above never pass
\* (a read with a non-zero address and value, READ_VISIBI).
DirectAddresses == {0, 3, 105}
DirectValues == {0, 2, 700}

InitPsm ==
    /\ phase = "running"
    /\ cb = "direct"
    /\ pc = "psm_enter"
    /\ available_writes = AvailableWrites
    /\ active = "none"
    /\ orphans = 0
    /\ connUse = 0
    /\ wire = << >>
    /\ command \in DOMAIN SOCKET_COMMANDS
    /\ passed \in DirectAddresses \X DirectValues
    /\ address = passed[1]
    /\ value = passed[2]
    /\ attempt = 0
    /\ caller = "direct"
    /\ result = NoResult
    /\ stat = 0
    /\ length = 0
    /\ data = << >>
    /\ idx = 0
    /\ delivered = NoDelivery
    /\ errs = 0
    /\ opens = 0
    /\ desync = 0
    /\ held = 0
    /\ connFails = 0
    /\ rejected = FALSE
    /\ cbOpens = 0
    /\ cbIO = FALSE
    /\ cbWrites = 0
    /\ writeOk = FALSE
    /\ argument_list = NoCmd
    /\ probe = "none"
    /\ NoTracker
    /\ NoPoll
    /\ NoRegistry

\* process_socket_message hands its result to the caller (plugin.py:942, 957).
RetDirect ==
    /\ pc = "psm_ret"
    /\ caller = "direct"
    /\ pc' = "returned"
    /\ UNCHANGED <<phase, cb, available_writes, wireVars, callVars, smVars,
                   idx, delivered, histVars, noteVars>>
    /\ UNCHANGED cmdVars
    /\ UNCHANGED <<trkVars, pollVars, regVars>>

NextPsm ==
    \/ PsmEnter
    \/ PsmConnect
    \/ SmSend
    \/ SmEcho
    \/ SmHdr
    \/ SmData
    \/ SmReturn
    \/ PsmExhausted
    \/ RetDirect

SpecPsm == InitPsm /\ [][NextPsm]_vars

\* ====================================================== DeviceUpdateTracker
\* A str is the sequence of its characters.
Digits == <<"0", "1", "2", "3", "4", "5", "6", "7", "8", "9">>
DigitChars == {Digits[i] : i \in DOMAIN Digits}
DigitVal(c) == (CHOOSE i \in DOMAIN Digits : Digits[i] = c) - 1
Upper == <<"A", "B", "C", "D", "E", "F", "G", "H", "I", "J", "K", "L", "M",
           "N", "O", "P", "Q", "R", "S", "T", "U", "V", "W", "X", "Y", "Z">>
Lower == <<"a", "b", "c", "d", "e", "f", "g", "h", "i", "j", "k", "l", "m",
           "n", "o", "p", "q", "r", "s", "t", "u", "v", "w", "x", "y", "z">>
Whitespace == {" "}

\* str.strip()
RECURSIVE lstrip(_)
lstrip(s) ==
    IF s # << >> /\ Head(s) \in Whitespace THEN lstrip(Tail(s)) ELSE s
RECURSIVE rstrip(_)
rstrip(s) ==
    IF s # << >> /\ s[Len(s)] \in Whitespace
    THEN rstrip(SubSeq(s, 1, Len(s) - 1))
    ELSE s
strip(s) == rstrip(lstrip(s))

\* str.find(c) + 1: the place of the first c in s, 0 if there is none.
Find(s, c) ==
    IF \E i \in 1..Len(s) : s[i] = c
    THEN CHOOSE i \in 1..Len(s) : s[i] = c /\ \A j \in 1..(i - 1) : s[j] # c
    ELSE 0
\* s.split(c)[0]
SplitFirst(s, c) == IF Find(s, c) = 0 THEN s ELSE SubSeq(s, 1, Find(s, c) - 1)
\* A lower() that leaves every letter as it is.
lowerKeep(s) == s

\* str.lower()
lower(s) ==
    [i \in 1..Len(s) |->
        IF \E k \in DOMAIN Upper : Upper[k] = s[i]
        THEN Lower[CHOOSE k \in DOMAIN Upper : Upper[k] = s[i]]
        ELSE s[i]]

\* float(s) for a stripped s written with a sign, digits and a point: the
\* grammar [sign] (digits [. [digits]] | . digits).  Exponents, inf, nan
\* and underscores are spelt with characters the candidates do not use.
AllDigits(s) == \A i \in 1..Len(s) : s[i] \in DigitChars
Unsigned(s) == IF s # << >> /\ s[1] \in {"+", "-"} THEN Tail(s) ELSE s
IntPart(s) == SplitFirst(Unsigned(s), ".")
FracPart(s) ==
    LET u == Unsigned(s)
    IN  IF Find(u, ".") = 0 THEN << >> ELSE SubSeq(u, Find(u, ".") + 1, Len(u))
\* float(s) does not raise ValueError.
IsFloat(s) ==
    /\ AllDigits(IntPart(s))
    /\ AllDigits(FracPart(s))
    /\ Len(IntPart(s)) + Len(FracPart(s)) >= 1

RECURSIVE DigitsValue(_)
DigitsValue(s) ==
    IF s = << >>
    THEN 0
    ELSE 10 * DigitsValue(SubSeq(s, 1, Len(s) - 1)) + DigitVal(s[Len(s)])
RECURSIVE IntToStr(_)
IntToStr(n) ==
    IF n < 10
    THEN <<Digits[n + 1]>>
    ELSE IntToStr(n \div 10) \o <<Digits[(n % 10) + 1]>>

\* |float(s)| in tenths, rounded as the format .1f rounds.  A value half way
\* between two tenths is rounded to the even one, which is what .1f does when
\* the double is exact (0.25, 0.75); other ties follow the nearest double and
\* the candidates hold none.
RoundTenths(s) ==
    LET f == FracPart(s)
        t0 == 10 * DigitsValue(IntPart(s)) + (IF f = << >> THEN 0 ELSE DigitVal(f[1]))
        rest == IF Len(f) <= 1 THEN << >> ELSE SubSeq(f, 2, Len(f))
        later == IF Len(rest) <= 1 THEN << >> ELSE SubSeq(rest, 2, Len(rest))
        above == /\ rest # << >>
                 /\ \/ DigitVal(rest[1]) > 5
                    \/ DigitVal(rest[1]) = 5 /\ DigitsValue(later) > 0
        tie == rest # << >> /\ DigitVal(rest[1]) = 5 /\ DigitsValue(later) = 0
    IN  IF above \/ (tie /\ t0 % 2 = 1) THEN t0 + 1 ELSE t0

\* f"{float(s):.1f}": the sign is kept when the value rounds to zero.
FormatOneDecimal(s) ==
    LET t == RoundTenths(s)
    IN  (IF s[1] = "-" THEN <<"-">> ELSE << >>)
            \o IntToStr(t \div 10) \o <<".">> \o <<Digits[(t % 10) + 1]>>

\* DeviceUpdateTracker._normalize_value
_normalize_value(value_str) ==
    IF value_str = << >>
    THEN << >>
    ELSE LET stripped == strip(value_str)
             first == IF Find(stripped, ";") # 0
                      THEN strip(SplitFirst(stripped, ";"))
                      ELSE stripped
         IN  IF IsFloat(first) THEN FormatOneDecimal(first) ELSE lower(first)

\* The devices looked at, one of each kind the host can hold: Temperature,
\* Custom, Text, Switch, setpoint and one of a type the tracker does not list.
TrackedDevices ==
    { [ID |-> 1, Type |-> 80, SubType |-> 5],
      [ID |-> 2, Type |-> 243, SubType |-> 31],
      [ID |-> 3, Type |-> 243, SubType |-> 19],
      [ID |-> 4, Type |-> 244, SubType |-> 73],
      [ID |-> 5, Type |-> 242, SubType |-> 1],
      [ID |-> 6, Type |-> 113, SubType |-> 0] }
\* Candidate values: "21.0", "21.04", "21.1", "0.0", "-0.04".
CandNValues == {0, 1}
CandSValues ==
    { <<"2", "1", ".", "0">>, <<"2", "1", ".", "0", "4">>,
      <<"2", "1", ".", "1">>, <<"0", ".", "0">>, <<"-", "0", ".", "0", "4">> }
\* Seconds that pass between two calls of update_device.
Ticks == {150, 300}

\* dict[key] = val
Put(dict, key, val) ==
    [k \in DOMAIN dict \cup {key} |-> IF k = key THEN val ELSE dict[k]]
\* dict.get(key, default)
Get(dict, key, default) == IF key \in DOMAIN dict THEN dict[key] ELSE default

\* DeviceUpdateTracker.type_mapping: is_graphing of each listed type.
type_mapping == (80 :> TRUE) @@ (243 :> TRUE) @@ (242 :> TRUE) @@ (244 :> FALSE)

\* A classification that treats Text devices by their type like any other.
_check_device_typeByType(device, types) ==
    LET t == IF device.ID \in DOMAIN types
             THEN types
             ELSE Put(types, device.ID, Get(type_mapping, device.Type, FALSE))
    IN  [is_graphing |-> t[device.ID], device_types |-> t]

\* DeviceUpdateTracker._check_device_type: what it returns and the cache
\* device_types it leaves.
_check_device_type(device, types) ==
    IF device.Type = 243 /\ device.SubType = 19
    THEN [is_graphing |-> FALSE, device_types |-> Put(types, device.ID, FALSE)]
    ELSE LET t == IF device.ID \in DOMAIN types
                  THEN types
                  ELSE Put(types, device.ID, Get(type_mapping, device.Type, FALSE))
         IN  [is_graphing |-> t[device.ID], device_types |-> t]

\* Strings with text, a ';' part, blanks and letters of either case: "Off",
\* "off", "OFF", " Off ", "Off;x", "off;Y", "On", "21.0", " 21.0", "21.04;C",
\* "21.0;F", "21.1", ";x", "0.0", "-0.04", "  ".
TextSValues ==
    { <<"O", "f", "f">>, <<"o", "f", "f">>, <<"O", "F", "F">>,
      <<" ", "O", "f", "f", " ">>, <<"O", "f", "f", ";", "x">>,
      <<"o", "f", "f", ";", "Y">>, <<"O", "n">>, <<"2", "1", ".", "0">>,
      <<" ", "2", "1", ".", "0">>, <<"2", "1", ".", "0", "4", ";", "C">>,
      <<"2", "1", ".", "0", ";", "F">>, <<"2", "1", ".", "1">>,
      <<";", "x">>, <<"0", ".", "0">>, <<"-", "0", ".", "0", "4">>,
      <<" ", " ">> }

\* _normalize_value of every string a device or a candidate holds, worked
\* out once: needs_update's norm_current and norm_new are read from it.
NormalizedOf ==
    [x \in CandSValues \cup TextSValues \cup {<< >>} |-> _normalize_value(x)]

\* A comparison of the strings only.
ValuesChangedSValueOnly(current_values, new_values) ==
    NormalizedOf[current_values.sValue] # NormalizedOf[new_values.sValue]

\* needs_update: values_changed after both comparisons.
ValuesChanged(current_values, new_values) ==
    \/ new_values.nValue # current_values.nValue
    \/ NormalizedOf[current_values.sValue] # NormalizedOf[new_values.sValue]

\* A test that never refreshes an unchanged graphing device.
IntervalElapsedNever(time_since_update) == FALSE

\* A test that refreshes an unchanged graphing device at every call.
IntervalElapsedAlways(time_since_update) == TRUE

\* needs_update: the test that forces an update of an unchanged device.
IntervalElapsed(time_since_update) == time_since_update >= graph_update_interval

\* DeviceUpdateTracker.needs_update(device, new_values) at current_time, with
\* the tracker's two dicts: the decision, its reason, and the dicts it leaves.
needs_update(device, current_values, new_values, current_time, times, types) ==
    LET chk == _check_device_type(device, types)
        last_update == Get(times, device.ID, 0)
        time_since_update == current_time - last_update
    IN  IF ValuesChanged(current_values, new_values)
        THEN [update |-> TRUE, reason |-> "Values changed",
              last_update_times |-> IF chk.is_graphing
                                    THEN Put(times, device.ID, current_time)
                                    ELSE times,
              device_types |-> chk.device_types]
        ELSE IF chk.is_graphing
        THEN IF IntervalElapsed(time_since_update)
             THEN [update |-> TRUE, reason |-> "Interval update",
                   last_update_times |-> Put(times, device.ID, current_time),
                   device_types |-> chk.device_types]
             ELSE [update |-> FALSE, reason |-> "No changes",
                   last_update_times |-> times,
                   device_types |-> chk.device_types]
        ELSE [update |-> FALSE, reason |-> "Non-graphing device, no changes",
              last_update_times |-> times, device_types |-> chk.device_types]

\* update_device from its call of needs_update on: largs holds the candidate,
\* and Devices[Unit].Update(**largs) stores it unless the host raises.
Decide(cand, ok) ==
    LET r == needs_update(dev, stored, cand, now, last_update_times, device_types)
    IN  /\ last_update_times' = r.last_update_times
        /\ device_types' = r.device_types
        /\ stored' = IF r.update /\ ok THEN cand ELSE stored
        /\ decision' = [called |-> TRUE, cand |-> cand, before |-> stored,
                        at |-> now,
                        recorded |-> dev.ID \in DOMAIN last_update_times,
                        last |-> Get(last_update_times, dev.ID, 0),
                        prevAccepted |-> lastAccepted,
                        is_graphing |-> r.device_types[dev.ID],
                        update |-> r.update, reason |-> r.reason,
                        failed |-> r.update /\ ~ok]
        /\ lastAccepted' = IF r.update THEN now ELSE lastAccepted
        /\ UNCHANGED <<dev, now, protoVars, pollVars, regVars>>

\* update_device(Unit, nValue, sValue), as the poll calls it (plugin.py:785).
UpdateDevice(nValue, sValue, ok) ==
    Decide([nValue |-> nValue, sValue |-> sValue], ok)

\* update_device(**update_params) of create_devices (plugin.py:847): no
\* nValue and no sValue, so largs keeps the device's own.
RefreshDevice(ok) == Decide(stored, ok)

\* Time passes between two calls; the call before it is over.
Tick(d) ==
    /\ now + d <= StartTime + MaxElapsed
    /\ now' = now + d
    /\ decision' = NoDecision
    /\ UNCHANGED <<dev, stored, last_update_times, device_types,
                   lastAccepted, protoVars, pollVars, regVars>>

\* The plugin is idle as far as the protocol goes.
ProtoIdle ==
    /\ phase = "running"
    /\ cb = "none"
    /\ pc = "idle"
    /\ available_writes = AvailableWrites
    /\ active = "none"
    /\ orphans = 0
    /\ connUse = 0
    /\ wire = << >>
    /\ command = ""
    /\ address = 0
    /\ value = 0
    /\ attempt = 0
    /\ caller = ""
    /\ result = NoResult
    /\ stat = 0
    /\ length = 0
    /\ data = << >>
    /\ idx = 0
    /\ delivered = NoDelivery
    /\ errs = 0
    /\ opens = 0
    /\ desync = 0
    /\ held = 0
    /\ connFails = 0
    /\ rejected = FALSE
    /\ cbOpens = 0
    /\ cbIO = FALSE
    /\ passed = <<0, 0>>
    /\ cbWrites = 0
    /\ writeOk = FALSE
    /\ argument_list = NoCmd
    /\ probe = "ok"

\* One device of the host, as created (nValue 0, sValue "") or as a run
\* before left it, and a tracker that has not decided anything yet.
InitTracker ==
    /\ ProtoIdle
    /\ NoPoll
    /\ NoRegistry
    /\ dev \in TrackedDevices
    /\ stored \in [nValue : CandNValues, sValue : CandSValues \cup {<< >>}]
    /\ last_update_times = << >>
    /\ device_types = << >>
    /\ now = StartTime
    /\ decision = NoDecision
    /\ lastAccepted = -1

NextTracker ==
    \/ \E n \in CandNValues, sv \in CandSValues, ok \in BOOLEAN :
           UpdateDevice(n, sv, ok)
    \/ \E ok \in BOOLEAN : RefreshDevice(ok)
    \/ \E d \in Ticks : Tick(d)

SpecTracker == InitTracker /\ [][NextTracker]_vars

\* ---------------------------------------------- the comparison of strings
\* A device that is not graphing (Text or Switch) holds one of the strings
\* and update_device is called with another: the device is updated just
\* when needs_update finds a change.
InitNormalize ==
    /\ ProtoIdle
    /\ NoPoll
    /\ NoRegistry
    /\ dev \in {d \in TrackedDevices : d.ID \in {3, 4}}
    /\ stored \in [nValue : CandNValues, sValue : TextSValues \cup {<< >>}]
    /\ last_update_times = << >>
    /\ device_types = << >>
    /\ now = StartTime
    /\ decision = NoDecision
    /\ lastAccepted = -1

NextNormalize ==
    \E n \in CandNValues, sv \in TextSValues, ok \in BOOLEAN :
        UpdateDevice(n, sv, ok)

SpecNormalize == InitNormalize /\ [][NextNormalize]_vars

\* ================================================================ poll cycle
\* devices_parameters_list (plugin.py:592-768) in the order of the source;
\* entry i becomes the unit with id i (plugin.py:791-792).  address is the
\* entry's address as a list (one index, two for calculate_temp_diff); args
\* are the whole numbers bound to the read callback: the divider of to_float
\* and calculate_temp_diff, the available_writes key of a selector's
\* mapping, [power_idx, 10 * power_threshold] of to_text_state, state_idx
\* followed by valid_states of to_instant_power_split, the two indices of
\* to_cop_calculator.
devices_parameters_list ==
    <<
       [message |-> "READ_CALCUL", address |-> <<10>>,
        conv |-> "to_float", args |-> <<10>>,
        name |-> "Heat supply temp"],
       [message |-> "READ_CALCUL", address |-> <<11>>,
        conv |-> "to_float", args |-> <<10>>,
        name |-> "Heat return temp"],
       [message |-> "READ_CALCUL", address |-> <<12>>,
        conv |-> "to_float", args |-> <<10>>,
        name |-> "Return temp target"],
       [message |-> "READ_CALCUL", address |-> <<15>>,
        conv |-> "to_float", args |-> <<10>>,
        name |-> "Outside temp"],
       [message |-> "READ_CALCUL", address |-> <<16>>,
        conv |-> "to_float", args |-> <<10>>,
        name |-> "Outside temp avg"],
       [message |-> "READ_CALCUL", address |-> <<17>>,
        conv |-> "to_float", args |-> <<10>>,
        name |-> "DHW temp"],
       [message |-> "READ_PARAMS", address |-> <<105>>,
        conv |-> "to_float", args |-> <<10>>,
        name |-> "DHW temp target"],
       [message |-> "READ_CALCUL", address |-> <<19>>,
        conv |-> "to_float", args |-> <<10>>,
        name |-> "WP source in temp"],
       [message |-> "READ_CALCUL", address |-> <<20>>,
        conv |-> "to_float", args |-> <<10>>,
        name |-> "WP source out temp"],
       [message |-> "READ_CALCUL", address |-> <<21>>,
        conv |-> "to_float", args |-> <<10>>,
        name |-> "MC1 temp"],
       [message |-> "READ_CALCUL", address |-> <<22>>,
        conv |-> "to_float", args |-> <<10>>,
        name |-> "MC1 temp target"],
       [message |-> "READ_CALCUL", address |-> <<24>>,
        conv |-> "to_float", args |-> <<10>>,
        name |-> "MC2 temp"],
       [message |-> "READ_CALCUL", address |-> <<25>>,
        conv |-> "to_float", args |-> <<10>>,
        name |-> "MC2 temp target"],
       [message |-> "READ_PARAMS", address |-> <<3>>,
        conv |-> "selector_switch_level_mapping", args |-> <<3>>,
        name |-> "Heating mode"],
       [message |-> "READ_PARAMS", address |-> <<4>>,
        conv |-> "selector_switch_level_mapping", args |-> <<4>>,
        name |-> "Hot water mode"],
       [message |-> "READ_PARAMS", address |-> <<108>>,
        conv |-> "to_number", args |-> << >>,
        name |-> "Cooling"],
       [message |-> "READ_PARAMS", address |-> <<1>>,
        conv |-> "to_float", args |-> <<10>>,
        name |-> "Temp +-"],
       [message |-> "READ_CALCUL", address |-> <<80>>,
        conv |-> "to_text_state", args |-> <<268, 1>>,
        name |-> "Working mode"],
       [message |-> "READ_CALCUL", address |-> <<173>>,
        conv |-> "to_float", args |-> <<1>>,
        name |-> "Flow"],
       [message |-> "READ_CALCUL", address |-> <<231>>,
        conv |-> "to_float", args |-> <<1>>,
        name |-> "Compressor freq"],
       [message |-> "READ_CALCUL", address |-> <<227>>,
        conv |-> "to_float", args |-> <<10>>,
        name |-> "Room temp"],
       [message |-> "READ_CALCUL", address |-> <<228>>,
        conv |-> "to_float", args |-> <<10>>,
        name |-> "Room temp target"],
       [message |-> "READ_CALCUL", address |-> <<268>>,
        conv |-> "to_instant_power", args |-> <<268>>,
        name |-> "Power total"],
       [message |-> "READ_CALCUL", address |-> <<268>>,
        conv |-> "to_instant_power_split", args |-> <<80, 0>>,
        name |-> "Power heating"],
       [message |-> "READ_CALCUL", address |-> <<268>>,
        conv |-> "to_instant_power_split", args |-> <<80, 1>>,
        name |-> "Power DHW"],
       [message |-> "READ_CALCUL", address |-> <<257>>,
        conv |-> "to_instant_power", args |-> <<257>>,
        name |-> "Heat out total"],
       [message |-> "READ_CALCUL", address |-> <<257>>,
        conv |-> "to_instant_power_split", args |-> <<80, 0>>,
        name |-> "Heat out heating"],
       [message |-> "READ_CALCUL", address |-> <<257>>,
        conv |-> "to_instant_power_split", args |-> <<80, 1>>,
        name |-> "Heat out DHW"],
       [message |-> "READ_CALCUL", address |-> <<257>>,
        conv |-> "to_cop_calculator", args |-> <<257, 268>>,
        name |-> "COP total"],
       [message |-> "READ_CALCUL", address |-> <<241>>,
        conv |-> "to_float", args |-> <<1>>,
        name |-> "Heating pump speed"],
       [message |-> "READ_CALCUL", address |-> <<183>>,
        conv |-> "to_float", args |-> <<1>>,
        name |-> "Brine pump speed"],
       [message |-> "READ_CALCUL", address |-> <<14>>,
        conv |-> "to_float", args |-> <<10>>,
        name |-> "Hot gas temp"],
       [message |-> "READ_CALCUL", address |-> <<176>>,
        conv |-> "to_float", args |-> <<10>>,
        name |-> "Suction temp"],
       [message |-> "READ_CALCUL", address |-> <<178>>,
        conv |-> "to_float", args |-> <<10>>,
        name |-> "Superheat"],
       [message |-> "READ_CALCUL", address |-> <<180>>,
        conv |-> "to_float", args |-> <<100>>,
        name |-> "High pressure"],
       [message |-> "READ_CALCUL", address |-> <<181>>,
        conv |-> "to_float", args |-> <<100>>,
        name |-> "Low pressure"],
       [message |-> "READ_CALCUL", address |-> <<19, 20>>,
        conv |-> "calculate_temp_diff", args |-> <<10>>,
        name |-> "Brine temp diff"],
       [message |-> "READ_CALCUL", address |-> <<10, 11>>,
        conv |-> "calculate_temp_diff", args |-> <<10>>,
        name |-> "Heating temp diff"]
    >>

\* A dev_lists that holds every unit under every category.
DevListAll(message) == [i \in 1..Len(devices_parameters_list) |-> i]

\* dev_lists[message] (plugin.py:796): the unit ids of a category, in order.
DevList(message) ==
    SelectSeq([i \in 1..Len(devices_parameters_list) |-> i],
              LAMBDA i : devices_parameters_list[i].message = message)

\* The strings translate() gives for the operating modes in English, the
\* default language, where every key stands for itself.
HeatingModeText ==
    <<"H", "e", "a", "t", "i", "n", "g", " ", "m", "o", "d", "e">>

HotWaterModeText ==
    <<"H", "o", "t", " ", "w", "a", "t", "e", "r", " ", "m", "o", "d", "e">>

PoolModeText ==
    <<"S", "w", "i", "m", "m", "i", "n", "g", " ", "p", "o", "o", "l", " ",
      "m", "o", "d", "e", " ", "/", " ", "P", "h", "o", "t", "o", "v", "o",
      "l", "t", "a", "i", "k">>

CoolingText ==
    <<"C", "o", "o", "l", "i", "n", "g">>

NoRequirementText ==
    <<"N", "o", " ", "r", "e", "q", "u", "i", "r", "e", "m", "e", "n", "t">>

\* translate(key) with the language set to English.
translate(key) == key

\* data_list[i]: ok is FALSE where Python raises IndexError.
Item(data_list, i) ==
    IF i >= 0 /\ i < data_list.length
    THEN [ok |-> TRUE, val |-> data_list.at[i]]
    ELSE [ok |-> FALSE, val |-> 0]

\* An index-of lookup that counts from 1.
ListIndexFromOne(list, x) ==
    IF \E i \in 1..Len(list) : list[i] = x
    THEN [ok |-> TRUE, val |-> CHOOSE i \in 1..Len(list) : list[i] = x]
    ELSE [ok |-> FALSE, val |-> 0]

\* list.index(x) of Python, counted from 0: ok is FALSE where it raises
\* ValueError.
ListIndex(list, x) ==
    IF \E i \in 1..Len(list) : list[i] = x
    THEN [ok |-> TRUE,
          val |-> (CHOOSE i \in 1..Len(list) :
                      list[i] = x /\ \A j \in 1..(i - 1) : list[j] # x) - 1]
    ELSE [ok |-> FALSE, val |-> 0]

Abs(x) == IF x < 0 THEN 0 - x ELSE x
\* str(n) of a whole number.
StrInt(n) == (IF n < 0 THEN <<"-">> ELSE << >>) \o IntToStr(Abs(n))
\* str(x) of the float with the given sign that is mag hundredths: as few
\* decimals as it takes, one at least.
StrHundredths(neg, mag) ==
    (IF neg THEN <<"-">> ELSE << >>)
        \o IntToStr(mag \div 100) \o <<".">>
        \o (IF mag % 10 = 0
            THEN <<Digits[((mag % 100) \div 10) + 1]>>
            ELSE <<Digits[((mag % 100) \div 10) + 1], Digits[(mag % 10) + 1]>>)
\* str(float(raw / divider)) for a divider of 1, 10 or 100.
StrQuotient(raw, divider) ==
    StrHundredths(raw < 0, Abs(raw) * (100 \div divider))
\* f"{float(raw):.1f}" of a whole number.
StrOneDecimal(raw) == StrInt(raw) \o <<".", "0">>

Raised == [NoCandidate EXCEPT !.raised = TRUE]
OnlyS(sv) == [NoCandidate EXCEPT !.hasS = TRUE, !.sValue = sv]
OnlyN(nv) == [NoCandidate EXCEPT !.hasN = TRUE, !.nValue = nv]
Both(nv, sv) ==
    [NoCandidate EXCEPT !.hasN = TRUE, !.nValue = nv, !.hasS = TRUE,
                        !.sValue = sv]

\* to_float (plugin.py:266-269)
to_float(data_list, data_idx, divider) ==
    LET x == Item(data_list, data_idx)
    IN  IF x.ok THEN OnlyS(StrQuotient(x.val, divider)) ELSE Raised

\* to_number (plugin.py:272-275) with its default divider 1.0
to_number(data_list, data_idx) ==
    LET x == Item(data_list, data_idx)
    IN  IF x.ok THEN OnlyN(x.val) ELSE Raised

\* selector_switch_level_mapping (plugin.py:278-281)
selector_switch_level_mapping(data_list, data_idx, mapping) ==
    LET x == Item(data_list, data_idx)
        i == ListIndex(mapping, x.val)
    IN  IF x.ok /\ i.ok
        THEN Both(i.val * 10, StrInt(i.val * 10))
        ELSE Raised

\* to_instant_power (plugin.py:284-303): its own except answers "0.0".
to_instant_power(data_list, power_data_idx) ==
    LET x == Item(data_list, power_data_idx)
    IN  IF x.ok THEN OnlyS(StrOneDecimal(x.val)) ELSE OnlyS(<<"0", ".", "0">>)

\* A split that passes the power on whatever the operating mode is.
to_instant_power_splitAnyMode(data_list, power_data_idx, state_idx, valid_states) ==
    LET x == Item(data_list, power_data_idx)
    IN  IF x.ok THEN OnlyS(StrOneDecimal(x.val)) ELSE OnlyS(<<"0", ".", "0">>)

\* to_instant_power_split (plugin.py:305-331): its own except answers "0.0".
to_instant_power_split(data_list, power_data_idx, state_idx, valid_states) ==
    LET x == Item(data_list, power_data_idx)
        st == Item(data_list, state_idx)
    IN  IF x.ok /\ st.ok
        THEN IF \E k \in 1..Len(valid_states) : valid_states[k] = st.val
             THEN OnlyS(StrOneDecimal(x.val))
             ELSE OnlyS(<<"0", ".", "0">>)
        ELSE OnlyS(<<"0", ".", "0">>)

\* round(heat_output / power_input, 2) in hundredths for power_input > 0,
\* without its sign.  A quotient half way between two hundredths follows the
\* nearest double in Python; the frames hold none.
RoundedQuotient(heat_output, power_input) ==
    (2 * 100 * Abs(heat_output) + power_input) \div (2 * power_input)

\* A calculator whose cop is the float 0.0 when power_input is not positive.
to_cop_calculatorFloatZero(data_list, heat_output_idx, power_input_idx) ==
    LET heat_output == Item(data_list, heat_output_idx)
        power_input == Item(data_list, power_input_idx)
    IN  IF ~(heat_output.ok /\ power_input.ok)
        THEN Raised
        ELSE IF power_input.val > 0
        THEN OnlyS(StrHundredths(heat_output.val < 0,
                                 RoundedQuotient(heat_output.val, power_input.val)))
        ELSE OnlyS(<<"0", ".", "0">>)

\* to_cop_calculator (plugin.py:333-345): cop is the int 0 when power_input
\* is not positive, and str(round(0, 2)) is "0".
to_cop_calculator(data_list, heat_output_idx, power_input_idx) ==
    LET heat_output == Item(data_list, heat_output_idx)
        power_input == Item(data_list, power_input_idx)
    IN  IF ~(heat_output.ok /\ power_input.ok)
        THEN Raised
        ELSE IF power_input.val > 0
        THEN OnlyS(StrHundredths(heat_output.val < 0,
                                 RoundedQuotient(heat_output.val, power_input.val)))
        ELSE OnlyS(<<"0">>)

\* A table of names that begins at code 1.
mode_namesFromOne ==
    (1 :> translate(HeatingModeText)) @@ (2 :> translate(HotWaterModeText))
    @@ (3 :> translate(PoolModeText)) @@ (4 :> translate(CoolingText))
    @@ (5 :> translate(NoRequirementText))

\* to_text_state (plugin.py:347-382); the threshold is given in tenths.
mode_names ==
    (0 :> translate(HeatingModeText)) @@ (1 :> translate(HotWaterModeText))
    @@ (2 :> translate(PoolModeText)) @@ (3 :> translate(CoolingText))
    @@ (4 :> translate(NoRequirementText))
to_text_state(data_list, data_idx, power_idx, power_threshold10) ==
    LET current_power == Item(data_list, power_idx)
        current_mode == Item(data_list, data_idx)
    IN  IF ~(current_power.ok /\ current_mode.ok)
        THEN Raised
        ELSE IF 10 * current_power.val <= power_threshold10
        THEN Both(0, translate(NoRequirementText))
        ELSE Both(0, Get(mode_names, current_mode.val,
                         translate(NoRequirementText)))

\* calculate_temp_diff (plugin.py:384-401)
calculate_temp_diff(data_list, indices, divider) ==
    LET temp1 == Item(data_list, indices[1])
        temp2 == Item(data_list, indices[2])
    IN  IF temp1.ok /\ temp2.ok
        THEN OnlyS(StrQuotient(Abs(temp1.val - temp2.val), divider))
        ELSE Raised

\* Unit.data_conversion_callback(data_list, self.address, *self._read_args)
\* (plugin.py:785) for the unit with the given id.
Convert(id, data_list) ==
    LET u == devices_parameters_list[id]
    IN  CASE u.conv = "to_float" ->
                to_float(data_list, u.address[1], u.args[1])
          [] u.conv = "to_number" ->
                to_number(data_list, u.address[1])
          [] u.conv = "selector_switch_level_mapping" ->
                selector_switch_level_mapping(data_list, u.address[1],
                                              available_writes[u.args[1]])
          [] u.conv = "to_instant_power" ->
                to_instant_power(data_list, u.address[1])
          [] u.conv = "to_instant_power_split" ->
                to_instant_power_split(data_list, u.address[1], u.args[1],
                                       Tail(u.args))
          [] u.conv = "to_cop_calculator" ->
                to_cop_calculator(data_list, u.args[1], u.args[2])
          [] u.conv = "to_text_state" ->
                to_text_state(data_list, u.address[1], u.args[1], u.args[2])
          [] u.conv = "calculate_temp_diff" ->
                calculate_temp_diff(data_list, u.address, u.args[1])

\* Debug level constants (plugin.py:69-75).
DEBUG_NONE == 0
DEBUG_BASIC == 1
DEBUG_DEVICE == 2
DEBUG_CONN == 4
DEBUG_PROTO == 8
DEBUG_DATA == 16
DEBUG_ALL == -1

\* current_debug_level & level for a level that is one bit.
BitSet(current_debug_level, level) ==
    IF current_debug_level < 0
    THEN TRUE
    ELSE (current_debug_level \div level) % 2 = 1

\* log_debug (plugin.py:99-138): the host call it makes, "none" if it makes
\* none.  It never calls Domoticz.Error unless the host's logging raises.
log_debug(level, current_debug_level) ==
    IF current_debug_level = DEBUG_NONE THEN "none"
    ELSE IF current_debug_level = DEBUG_ALL THEN "Debug"
    ELSE IF level = DEBUG_BASIC /\ BitSet(current_debug_level, DEBUG_BASIC)
    THEN "Status"
    ELSE IF level = DEBUG_DEVICE /\ BitSet(current_debug_level, DEBUG_DEVICE)
    THEN "Status"
    ELSE IF level = DEBUG_CONN /\ BitSet(current_debug_level, DEBUG_CONN)
    THEN "Debug"
    ELSE IF level = DEBUG_PROTO /\ BitSet(current_debug_level, DEBUG_PROTO)
    THEN "Debug"
    ELSE IF level = DEBUG_DATA /\ BitSet(current_debug_level, DEBUG_DATA)
    THEN "Debug"
    ELSE "none"
\* Host lines a call of log_debug adds.
Lines(level) == IF log_debug(level, debug_level) = "none" THEN 0 ELSE 1

\* The registers the field table reads.
AllAddrs ==
    UNION {{devices_parameters_list[i].address[k] :
               k \in 1..Len(devices_parameters_list[i].address)} :
           i \in 1..Len(devices_parameters_list)}
\* A frame is given by its count and by the registers the table reads.
\* Registers that are not varied: temperatures, pressures, flow and the
\* set points of the parameter category.
BaseRegs ==
    [a \in AllAddrs |->
        CASE a = 11 -> 188
          [] a = 20 -> 203
          [] a = 173 -> 900
          [] a = 180 -> 1804
          [] a = 181 -> -4
          [] a = 105 -> 500
          [] a = 1 -> 5
          [] a \in {3, 4, 108, 80, 257, 268} -> 0
          [] OTHER -> 215]
\* Values of the operating mode (80), the heat output (257) and the power
\* input (268), of the heating mode (3) and of the cooling switch (108).
ModeValues == {0, 1, 2, 3, 4, 7}
HeatValues == {-1000, 0, 2000, 3000}
PowerValues == {-1000, 0, 1000, 3000}
SelectorValues == {0, 1, 2, 3, 4, 7}
SwitchValues == {0, 1}
\* Counts of a whole frame and of a short one, per category.
FullCount == [c \in {"READ_CALCUL", "READ_PARAMS"} |->
                 IF c = "READ_CALCUL" THEN 300 ELSE 200]
ShortCount == [c \in {"READ_CALCUL", "READ_PARAMS"} |->
                  IF c = "READ_CALCUL" THEN 12 ELSE 2]
EmptyFrame(c) == [command |-> c, length |-> 0, at |-> BaseRegs]
Frames(c) ==
    {[command |-> c, length |-> ShortCount[c], at |-> BaseRegs]} \cup
    (IF c = "READ_CALCUL"
     THEN {[command |-> c, length |-> FullCount[c],
            at |-> [BaseRegs EXCEPT ![80] = m, ![257] = h, ![268] = p]] :
               m \in ModeValues, h \in HeatValues, p \in PowerValues}
     ELSE {[command |-> c, length |-> FullCount[c],
            at |-> [BaseRegs EXCEPT ![3] = r, ![4] = h, ![108] = w]] :
               r \in SelectorValues, h \in SelectorValues, w \in SwitchValues})

\* update_all: the loop variable command_type.
command_type == PollOrder[IF pollIdx \in DOMAIN PollOrder THEN pollIdx ELSE 1]

NoOutcome ==
    [u \in 1..Len(devices_parameters_list) |->
        [state |-> "none", cat |-> "", cand |-> NoCandidate]]

\* update_all begins (plugin.py:1002-1008).
PollStart ==
    /\ pollPc \in {"idle", "done"}
    /\ pollPc' = "exchange"
    /\ pollIdx' = 1
    /\ outcome' = NoOutcome
    /\ candidate' = NoCandidate
    /\ frame' = NoFrame
    /\ queue' = << >>
    /\ hostErrs' = 0
    /\ hostLines' = IF debug_level = DEBUG_ALL THEN Lines(DEBUG_BASIC) ELSE 0
    /\ exchanges' = << >>
    /\ UNCHANGED <<debug_level, Devices, protoVars, trkVars, regVars>>

\* result = self.process_socket_message(command_type) (plugin.py:1009-1012),
\* with the list of units the loop will go through:
\* a frame, or a result with count 0, which process_socket_message also gives
\* after it failed and reported that with Domoticz.Error.
PollExchange(res, failed) ==
    /\ pollPc = "exchange"
    /\ failed => res = EmptyFrame(command_type)
    /\ frame' = res
    /\ exchanges' = Append(exchanges, [command |-> res.command, length |-> res.length])
    /\ hostErrs' = IF failed THEN hostErrs + 1 ELSE hostErrs
    /\ queue' = IF res.length > 0 THEN DevList(command_type) ELSE << >>
    /\ pollPc' = "fields"
    /\ UNCHANGED <<debug_level, Devices, pollIdx, outcome, candidate,
                   hostLines, protoVars, trkVars, regVars>>

\* A loop that a raising conversion ends.
RestOfLoopAbort(raised, q) == IF raised THEN << >> ELSE Tail(q)

\* The device loop goes on with the next unit whatever the round raised:
\* _update_device and the loop body catch Exception (plugin.py:1025, 1043).
RestOfLoop(raised, q) == Tail(q)

\* One round of the device loop (plugin.py:1012-1027) with _update_device
\* (plugin.py:1038-1045) and update_domoticz_dev (plugin.py:784-785).
PollField ==
    /\ pollPc = "fields"
    /\ queue # << >>
    /\ LET id == Head(queue)
           cand == Convert(id, frame)
       IN  IF id \notin Devices
           THEN /\ outcome' = [outcome EXCEPT ![id] =
                                  [state |-> "missing", cat |-> frame.command,
                                   cand |-> NoCandidate]]
                /\ hostLines' = hostLines + Lines(DEBUG_DEVICE)
                /\ UNCHANGED candidate
           ELSE /\ candidate' = cand
                /\ outcome' = [outcome EXCEPT ![id] =
                                  [state |-> IF cand.raised THEN "skipped" ELSE "passed",
                                   cat |-> frame.command,
                                   cand |-> IF cand.raised THEN NoCandidate ELSE cand]]
                /\ hostLines' = IF cand.raised
                                THEN hostLines + Lines(DEBUG_DEVICE)
                                ELSE hostLines
    /\ queue' = RestOfLoop(Head(queue) \notin Devices
                                \/ Convert(Head(queue), frame).raised, queue)
    /\ UNCHANGED <<debug_level, Devices, frame, pollPc, pollIdx, hostErrs,
                   exchanges, protoVars, trkVars, regVars>>

\* The device loop is over, or was not entered (plugin.py:1008, 1029-1031).
\* The candidates of the loop are gone with the loop.
PollNext ==
    /\ pollPc = "fields"
    /\ queue = << >>
    /\ hostLines' = IF frame.length > 0 /\ debug_level = DEBUG_ALL
                    THEN hostLines + Lines(DEBUG_BASIC)
                    ELSE hostLines
    /\ IF pollIdx < Len(PollOrder)
       THEN /\ pollIdx' = pollIdx + 1
            /\ pollPc' = "exchange"
       ELSE /\ pollPc' = "done"
            /\ UNCHANGED pollIdx
    /\ outcome' = [u \in DOMAIN outcome |-> [outcome[u] EXCEPT !.cand = NoCandidate]]
    /\ UNCHANGED <<debug_level, Devices, frame, queue, candidate,
                   hostErrs, exchanges, protoVars, trkVars, regVars>>

\* The plugin runs with some debug level; the host holds every device, or
\* the user has deleted one.
InitPoll ==
    /\ ProtoIdle
    /\ NoTracker
    /\ NoRegistry
    /\ debug_level \in {DEBUG_NONE, DEBUG_DEVICE, DEBUG_ALL}
    /\ Devices \in {1..Len(devices_parameters_list),
                    (1..Len(devices_parameters_list)) \ {2}}
    /\ frame = NoFrame
    /\ pollPc = "idle"
    /\ pollIdx = 0
    /\ queue = << >>
    /\ outcome = NoOutcome
    /\ candidate = NoCandidate
    /\ hostErrs = 0
    /\ hostLines = 0
    /\ exchanges = << >>

NextPoll ==
    \/ PollStart
    \/ \E failed \in BOOLEAN :
           \E res \in Frames(command_type) \cup {EmptyFrame(command_type)} :
               PollExchange(res, failed)
    \/ PollField
    \/ PollNext

SpecPoll == InitPoll /\ [][NextPoll]_vars

\* ==================================================================== claims

\* ----------------------------------------------------------- field registry
\* The names of the table as shipped: translate() of the English keys.
ShippedNames ==
    [i \in 1..Len(devices_parameters_list) |-> devices_parameters_list[i].name]

\* Pairs <<j, k>>: entry j of the table carries the name of entry k, as it
\* does when a translation gives two keys the same text or when an entry is
\* added under a name that is taken.
DupPairs == {<<2, 1>>, <<15, 14>>, <<38, 14>>}

\* Tables the registry is built from.
Tables ==
    {ShippedNames} \cup {[ShippedNames EXCEPT ![p[1]] = ShippedNames[p[2]]] : p \in DupPairs}

\* One round of the registration loop (plugin.py:791-798).
RegisterUnit ==
    /\ regPc = "building"
    /\ dev_idx < Len(table_names)
    /\ LET id == dev_idx + 1
           message == devices_parameters_list[id].message
       IN  /\ units' = Put(units, table_names[id], id)
           /\ dev_lists' =
                 [c \in DOMAIN dev_lists |->
                     IF c = message \/ (c = "WRIT_PARAMS" /\ id \in DOMAIN WritUnits)
                     THEN Append(dev_lists[c], id)
                     ELSE dev_lists[c]]
    /\ dev_idx' = dev_idx + 1
    /\ UNCHANGED <<table_names, regPc, protoVars, trkVars, pollVars>>

\* The loop is over and prepare_devices_list returns (plugin.py:791, 817).
RegistryBuilt ==
    /\ regPc = "building"
    /\ dev_idx = Len(table_names)
    /\ regPc' = "built"
    /\ UNCHANGED <<table_names, units, dev_lists, dev_idx, protoVars, trkVars,
                   pollVars>>

\* prepare_devices_list has set devices_parameters_list and enters the loop.
InitRegistry ==
    /\ ProtoIdle
    /\ NoTracker
    /\ NoPoll
    /\ table_names \in Tables
    /\ units = << >>
    /\ dev_lists = NoDevLists
    /\ dev_idx = 0
    /\ regPc = "building"

NextRegistry ==
    \/ RegisterUnit
    \/ RegistryBuilt

SpecRegistry == InitRegistry /\ [][NextRegistry]_vars

\* Positions inside process_socket_message, its return included.
PsmPcs == {"psm_enter", "psm_attempt", "sm_send", "sm_echo", "sm_hdr",
           "sm_data", "sm_return", "psm_ret"}
\* The value v is a member of the list registered for address a.
InAllowedList(a, v) ==
    a \in DOMAIN AvailableWrites /\ v \in {AvailableWrites[a][i] : i \in DOMAIN AvailableWrites[a]}
IsEmptyResult(r) == r.stat = 0 /\ r.length = 0 /\ r.data = << >>

\* C1: a call process_socket_message('WRIT_PARAMS', address, value) whose
\* value is not in the allowed list of address opens no connection, sends no
\* word (it never reaches a connect, send or receive position) and returns
\* the empty result (status 0, count 0, empty frame).
C1_InvalidWriteNeverOnWire ==
    (pc \in PsmPcs /\ command = "WRIT_PARAMS" /\ ~InAllowedList(address, value))
        => /\ opens = 0
           /\ held = 0
           /\ pc \in {"psm_enter", "psm_ret"}
           /\ (pc = "psm_ret" => IsEmptyResult(result) /\ result # NoResult)

\* C1 witness: a write call with a value outside the list has returned.
C1_Witness ==
    /\ pc = "psm_ret"
    /\ command = "WRIT_PARAMS"
    /\ ~InAllowedList(address, value)
    /\ address = 105
    /\ value = 700
    /\ IsEmptyResult(result)

\* C2 (as claimed): an onCommand whose converted value is outside the allowed
\* set opens no connection and exchanges no word before it returns.
C2_RejectedCommandNoIO ==
    (cb = "onCommand" /\ rejected) => (cbOpens = 0 /\ ~cbIO)

\* C3: one call of process_socket_message makes at most 2 connection
\* attempts, and never more attempts than failed attempts plus one: the
\* second is made only after the first failed (attempt counts the failed
\* passes of the loop).
C3_RetryBudget ==
    pc \in PsmPcs => (opens <= 2 /\ opens <= attempt + 1)

\* C3 witness: a call returned a frame from its second attempt.
C3_Witness ==
    /\ pc = "psm_ret"
    /\ opens = 2
    /\ attempt = 1
    /\ result.length > 0

\* C4 (as claimed): after an echo mismatch in attempt k of a call, the call
\* opens no further connection.
C4_DesyncNoRetry ==
    desync # 0 => opens = desync

\* C5: process_socket_message always comes back with a result; when both
\* attempts failed the result is the empty result and at least one error was
\* reported to the host.
C5_NeverRaises ==
    pc = "psm_ret"
        => /\ result # NoResult
           /\ (attempt = 2 => IsEmptyResult(result) /\ result.command = command /\ errs >= 1)

\* C5 witness: a call returned after a connect failure and an exchange failure.
C5_Witness ==
    /\ pc = "psm_ret"
    /\ attempt = 2
    /\ connFails = 1
    /\ IsEmptyResult(result)
    /\ errs >= 1

\* C6 (as claimed): a READ_CALCUL call whose two connects failed returns the
\* empty result with exactly one error reported to the host.
C6_OneFailureReported ==
    (pc = "psm_ret" /\ command = "READ_CALCUL" /\ connFails = 2)
        => (IsEmptyResult(result) /\ errs = 1)

\* C7: when process_socket_message returns, and before it retries, every
\* connection the call opened is closed and active_connection is None; no
\* socket carries more than one exchange.
C7_ClosedAfterExchange ==
    /\ (pc = "psm_ret" \/ (pc = "psm_attempt" /\ attempt >= 1))
          => (active = "none" /\ held = 0)
    /\ pc \in PsmPcs => held <= 1
    /\ connUse <= 1

\* C7 witness: a call that exchanged words on a connection has returned.
C7_Witness ==
    /\ pc = "psm_ret"
    /\ opens >= 1
    /\ Len(wire) > 0
    /\ active = "none"

\* C8 (as claimed): at every moment at most one connection opened by the
\* plugin is open, and no socket carries more than one exchange.
C8_OneConnectionOpen ==
    NOpen <= 1 /\ connUse <= 1

\* C9: once the echo read on a connection differs from the code sent on it,
\* that read is the last word on the connection (no header field, no
\* register value, no further send), the connection is closed and it is not
\* the plugin's connection any more.
C9_EchoMismatchEndsExchange ==
    (Len(Received(wire)) >= 1 /\ Received(wire)[1].w # Sent(wire)[1].w)
        => /\ Len(Received(wire)) = 1
           /\ wire[Len(wire)].d = "r"
           /\ active = "none"
           /\ pc \notin {"sm_send", "sm_echo", "sm_hdr", "sm_data", "sm_return"}

\* C9 witness: the first attempt of a call has seen a wrong echo.
C9_Witness ==
    /\ pc = "psm_attempt"
    /\ desync = 1
    /\ Len(Received(wire)) = 1
    /\ Received(wire)[1].w # Sent(wire)[1].w
    /\ active = "none"

\* C10: on the connection of a write exchange the first three words are
\* sends of the command code, the address and the value in this order, no
\* more is sent, and every read comes after the third send.
C10_WriteSendsThreeWords ==
    (pc \in PsmPcs /\ command = "WRIT_PARAMS" /\ opens >= 1)
        => /\ \A i \in 1..Len(wire) :
                IF i <= 3
                THEN wire[i] = [d |-> "s",
                                w |-> <<SOCKET_COMMANDS["WRIT_PARAMS"], address, value>>[i]]
                ELSE wire[i].d = "r"
           /\ (pc \in {"sm_echo", "sm_hdr", "sm_data", "sm_return"} => Len(wire) >= 3)

\* C10 witness: a valid write has sent its three words and read the echo.
C10_Witness ==
    /\ pc = "sm_return"
    /\ command = "WRIT_PARAMS"
    /\ InAllowedList(address, value)
    /\ Len(Sent(wire)) = 3
    /\ Len(wire) = 4

\* C11 (as claimed): a write exchange that returns a result has read two
\* words from the peer, the echo and then one count header field.
C11_WriteReadsCount ==
    (pc = "sm_return" /\ command = "WRIT_PARAMS") => Len(Received(wire)) = 2

\* C12: a read request is sent as the command code and address 0, whatever
\* the caller passed; once the echo matched, READ_PARAMS reads one header
\* word (the count), READ_CALCUL two (status, then count) and READ_VISIBI
\* none, before any register value.
C12_HeaderByCommand ==
    (pc \in PsmPcs /\ command # "WRIT_PARAMS" /\ opens >= 1)
        => LET code == SOCKET_COMMANDS[command]
               snt == Sent(wire)
               rcv == Received(wire)
               hdr == Len(rcv) - 1 - Len(data)
           IN /\ Len(snt) <= 2
              /\ \A i \in 1..Len(snt) : snt[i].w = <<code, 0>>[i]
              /\ pc \in {"sm_echo", "sm_hdr", "sm_data", "sm_return"} => Len(snt) = 2
              /\ pc \in {"sm_data", "sm_return"} =>
                    CASE command = "READ_PARAMS" -> hdr = 1 /\ length = rcv[2].w
                      [] command = "READ_CALCUL" ->
                            hdr = 2 /\ stat = rcv[2].w /\ length = rcv[3].w
                      [] OTHER -> hdr = 0 /\ Len(rcv) = 1

\* C12 witness: READ_CALCUL called with a non-zero address and value has
\* read status 1 and count 1.
C12_Witness ==
    /\ pc = "sm_return"
    /\ command = "READ_CALCUL"
    /\ passed = <<3, 2>>
    /\ stat = 1
    /\ length = 1
    /\ Len(data) = 1

\* C13: a read exchange reads as many register values as the declared count
\* when it is positive and none when it is zero or negative, never more, and
\* the returned frame has that many elements.
C13_ReadsDeclaredCount ==
    LET want == IF length > 0 THEN length ELSE 0 IN
    /\ pc \in {"sm_hdr", "sm_data", "sm_return"} => Len(data) <= want
    /\ pc = "sm_data" => Len(data) < want
    /\ pc = "sm_return" => Len(data) = want
    /\ (pc = "psm_ret" /\ command # "WRIT_PARAMS")
          => Len(result.data) = (IF result.length > 0 THEN result.length ELSE 0)

\* C13 witness: a read returned a frame of two values for a declared count
\* of two.
C13_Witness ==
    /\ pc = "psm_ret"
    /\ command = "READ_PARAMS"
    /\ result.length = 2
    /\ Len(result.data) = 2

\* C14 (as claimed): during one onCommand the write request is sent to the
\* peer at most once.
C14_WriteSentOnce ==
    cbWrites <= 1

\* C14 (amended): during one onCommand the write request is sent at most
\* once per connection attempt of the single process_socket_message call,
\* so at most twice, and a second time only after the first attempt failed;
\* no other callback sends a write request.
C14_WriteSentOncePerAttempt ==
    /\ cbWrites <= 2
    /\ (pc \in PsmPcs /\ command = "WRIT_PARAMS")
          => (cbWrites <= opens /\ cbWrites <= attempt + 1)
    /\ cb # "onCommand" => cbWrites = 0

\* C14 witness: an onCommand that sent its write request twice returns.
C14_Witness ==
    /\ cb = "onCommand"
    /\ pc = "cb_ret"
    /\ cbWrites = 2

\* C15: once the write call of onCommand has returned a result of
\* send_message, the next call is the READ_PARAMS call of update, it starts
\* with no connection open in active_connection (the write's connection is
\* closed), and onCommand returns only after that call has returned.
C15_PollAfterWrite ==
    /\ (cb = "onCommand" /\ writeOk) => (caller = "update" /\ command = "READ_PARAMS")
    /\ (cb = "onCommand" /\ caller = "update" /\ opens = 0) => (active = "none" /\ held = 0)
    /\ (cb = "onCommand" /\ writeOk /\ pc = "cb_ret") => result # NoResult

\* C15 witness: an onCommand whose write succeeded returns after its poll
\* delivered a frame.
C15_Witness ==
    /\ cb = "onCommand"
    /\ writeOk
    /\ pc = "cb_ret"
    /\ Len(delivered["READ_PARAMS"]) > 0

\* ------------------------------------------------ claims about the tracker
\* The class of a device by its host type alone.
GraphingByType(d) ==
    /\ d.Type \in {80, 242, 243}
    /\ ~(d.Type = 243 /\ d.SubType = 19)
\* The candidate of the last call differs from what the device held.
CandidateDiffers ==
    \/ decision.cand.nValue # decision.before.nValue
    \/ NormalizedOf[decision.cand.sValue] # NormalizedOf[decision.before.sValue]
\* The timestamp of the device after the last call, 0 if it has none.
Timestamp == Get(last_update_times, dev.ID, 0)

\* C16: when the candidate's nValue differs from the stored one, or the
\* normalized strings differ, needs_update answers update with the reason
\* "Values changed", and for a graphing device the timestamp of the device
\* is the time of the call.
C16_ChangedIsPublished ==
    (decision.called /\ CandidateDiffers)
        => /\ decision.update
           /\ decision.reason = "Values changed"
           /\ GraphingByType(dev)
                 => (dev.ID \in DOMAIN last_update_times /\ Timestamp = decision.at)

\* A graphing device got a candidate that differs in nValue only.
C16_Witness ==
    /\ decision.called
    /\ GraphingByType(dev)
    /\ decision.cand.nValue # decision.before.nValue
    /\ NormalizedOf[decision.cand.sValue] = NormalizedOf[decision.before.sValue]
    /\ decision.update
    /\ Timestamp = decision.at

\* C17 as stated: for a graphing device with an unchanged candidate the
\* answer is update, "Interval update" and a fresh timestamp exactly when
\* more than 300 s have passed since the recorded timestamp, and otherwise
\* no update and the timestamp as it was.
C17_IntervalWhenExceeded ==
    (decision.called /\ GraphingByType(dev) /\ ~CandidateDiffers)
        => IF decision.at - decision.last > graph_update_interval
           THEN /\ decision.update
                /\ decision.reason = "Interval update"
                /\ Timestamp = decision.at
           ELSE /\ ~decision.update
                /\ Timestamp = decision.last

\* C17, amended: the same with "at least 300 s" in place of "more than
\* 300 s": at 300 s sharp the device is refreshed.
C17_IntervalWhenElapsed ==
    (decision.called /\ GraphingByType(dev) /\ ~CandidateDiffers)
        => IF decision.at - decision.last >= graph_update_interval
           THEN /\ decision.update
                /\ decision.reason = "Interval update"
                /\ Timestamp = decision.at
           ELSE /\ ~decision.update
                /\ Timestamp = decision.last
                /\ (dev.ID \in DOMAIN last_update_times) = decision.recorded

\* An unchanged graphing device is refreshed 300 s after its timestamp.
C17_Witness ==
    /\ decision.called
    /\ GraphingByType(dev)
    /\ ~CandidateDiffers
    /\ decision.recorded
    /\ decision.at - decision.last = graph_update_interval
    /\ decision.update
    /\ decision.reason = "Interval update"

\* C18: an update accepted for an unchanged candidate comes at least 300 s
\* after the update accepted before it for the same device, whether that one
\* was for a changed or an unchanged candidate.
C18_ForcedUpdatesApart ==
    (decision.called /\ decision.update /\ ~CandidateDiffers
                     /\ decision.prevAccepted # -1)
        => decision.at - decision.prevAccepted >= graph_update_interval

\* A forced update that follows an accepted update of the same device.
C18_Witness ==
    /\ decision.called
    /\ decision.update
    /\ ~CandidateDiffers
    /\ decision.reason = "Interval update"
    /\ decision.prevAccepted # -1
    /\ decision.at - decision.prevAccepted >= graph_update_interval

\* The value of a numeric string in tenths, rounded to one decimal.
TenthsOf ==
    [x \in CandSValues |->
        IF x[1] = "-" THEN 0 - RoundTenths(x) ELSE RoundTenths(x)]

\* C19: after an accepted update, a candidate with the same nValue whose
\* number equals the stored number at one decimal is not updated as long as
\* 300 s have not passed since the timestamp.
C19_SameAtOneDecimalNoUpdate ==
    (/\ decision.called
     /\ decision.prevAccepted # -1
     /\ decision.before.sValue \in CandSValues
     /\ decision.cand.nValue = decision.before.nValue
     /\ TenthsOf[decision.cand.sValue] = TenthsOf[decision.before.sValue]
     /\ GraphingByType(dev)
           => (decision.recorded
               /\ decision.at - decision.last < graph_update_interval))
        => ~decision.update

\* C20: the class a device is given is the class of its host type (80, 242
\* and 243 graphing; 244, unlisted types and Text 243/19 not), at every call,
\* and a non-graphing device with an unchanged candidate is not updated.
C20_StaticClassification ==
    /\ \A id \in DOMAIN device_types :
           id = dev.ID /\ device_types[id] = GraphingByType(dev)
    /\ decision.called => decision.is_graphing = GraphingByType(dev)
    /\ (decision.called /\ ~GraphingByType(dev) /\ ~CandidateDiffers)
           => ~decision.update

\* A Text device is offered what it holds 600 s after the start and is left
\* alone.
C20_Witness ==
    /\ decision.called
    /\ dev.Type = 243
    /\ dev.SubType = 19
    /\ ~CandidateDiffers
    /\ decision.at - StartTime >= 2 * graph_update_interval
    /\ ~decision.is_graphing
    /\ ~decision.update

\* ------------------------------------- claims about the string comparison
\* What is left of a string without the blanks around it.
Core(a) ==
    LET ink == {i \in 1..Len(a) : a[i] # " "}
    IN  IF ink = {}
        THEN << >>
        ELSE SubSeq(a, CHOOSE i \in ink : \A j \in ink : i <= j,
                       CHOOSE i \in ink : \A j \in ink : i >= j)
\* The part of a string in front of its first ';'.
BeforeSemicolon(a) ==
    LET semis == {i \in 1..Len(a) : a[i] = ";"}
    IN  IF semis = {}
        THEN a
        ELSE SubSeq(a, 1, (CHOOSE i \in semis : \A j \in semis : i <= j) - 1)
\* The segment of a string that takes part in the comparison.
Segment(a) == Core(BeforeSemicolon(Core(a)))
\* Two strings are the same but for the case of their letters.
SameUpToCase(a, b) ==
    /\ Len(a) = Len(b)
    /\ \A i \in 1..Len(a) :
           \/ a[i] = b[i]
           \/ \E k \in DOMAIN Upper : {a[i], b[i]} = {Upper[k], Lower[k]}
\* The numbers the numeric segments stand for, in hundredths.
HundredthsOf ==
    (<<"2", "1", ".", "0">> :> 2100) @@ (<<"2", "1", ".", "0", "4">> :> 2104)
    @@ (<<"2", "1", ".", "1">> :> 2110) @@ (<<"0", ".", "0">> :> 0)
    @@ (<<"-", "0", ".", "0", "4">> :> -4)
\* A number written with one decimal: its sign and its tenths.
OneDecimal(seg) ==
    LET h == HundredthsOf[seg]
    IN  <<seg[1] = "-", ((IF h < 0 THEN 0 - h ELSE h) + 5) \div 10>>
\* The comparison of two strings as the claim describes it.
TreatedEqual(a, b) ==
    LET sa == Segment(a)
        sb == Segment(b)
    IN  IF sa \in DOMAIN HundredthsOf /\ sb \in DOMAIN HundredthsOf
        THEN OneDecimal(sa) = OneDecimal(sb)
        ELSE /\ sa \notin DOMAIN HundredthsOf
             /\ sb \notin DOMAIN HundredthsOf
             /\ SameUpToCase(sa, sb)

LoopOver == pollPc = "fields" /\ queue = << >> /\ frame.length > 0
\* The units of a category.
UnitsOf(c) ==
    {u \in 1..Len(devices_parameters_list) : devices_parameters_list[u].message = c}

\* C22: when the device loop of a category is over, every unit of the
\* category has been dealt with; a unit whose conversion raises on the frame
\* was not handed to update_device and every other unit the host holds was;
\* and the cycle ends only after both categories were asked for.
C22_RaisingFieldSkipped ==
    /\ LoopOver
          => \A u \in UnitsOf(frame.command) :
                 /\ outcome[u].state # "none"
                 /\ u \in Devices
                       => (outcome[u].state = "passed") = ~Convert(u, frame).raised
    /\ pollPc = "done" => Len(exchanges) = Len(PollOrder)

\* The calculated category came short, so most of its units raised, and the
\* parameter category was still read and handed on.
C22_Witness ==
    /\ pollPc = "done"
    /\ outcome[3].state = "skipped"
    /\ outcome[1].state = "passed"
    /\ outcome[38].state = "passed"
    /\ outcome[14].state = "passed"

\* C23 as stated: a conversion that raised in this cycle has led to a call
\* of Domoticz.Error.
C23_ConversionFailureReported ==
    (\E u \in DOMAIN outcome : outcome[u].state = "skipped") => hostErrs >= 1

\* C24: the results of a cycle are asked for in the order READ_CALCUL,
\* READ_PARAMS, one each, the second whatever the count of the first; a unit
\* is converted only from a frame of its own category with a count above 0.
C24_PollOrderAndFrames ==
    /\ Len(exchanges) <= Len(PollOrder)
    /\ \A i \in 1..Len(exchanges) : exchanges[i].command = PollOrder[i]
    /\ pollPc = "done" => Len(exchanges) = Len(PollOrder)
    /\ \A u \in DOMAIN outcome :
           outcome[u].state # "none"
               => /\ outcome[u].cat = devices_parameters_list[u].message
                  /\ \E i \in 1..Len(exchanges) :
                         /\ exchanges[i].command = outcome[u].cat
                         /\ exchanges[i].length > 0
    /\ \A i \in 1..Len(exchanges) :
           (exchanges[i].length = 0 /\ (i < Len(exchanges) \/ pollPc = "done"))
               => \A u \in UnitsOf(exchanges[i].command) : outcome[u].state = "none"

\* The first result was empty and the second category was converted.
C24_Witness ==
    /\ pollPc = "done"
    /\ exchanges[1].length = 0
    /\ exchanges[2].length > 0
    /\ outcome[1].state = "none"
    /\ outcome[16].state = "passed"

\* Unit u is the one the device loop has just converted and handed on.
JustPassed(u) ==
    /\ pollPc = "fields"
    /\ frame.command = devices_parameters_list[u].message
    /\ outcome[u].state = "passed"
    /\ \A v \in UnitsOf(frame.command) : v > u => outcome[v].state = "none"
\* Unit u is the one the device loop has just skipped.
JustSkipped(u) ==
    /\ pollPc = "fields"
    /\ frame.command = devices_parameters_list[u].message
    /\ outcome[u].state = "skipped"
    /\ \A v \in UnitsOf(frame.command) : v > u => outcome[v].state = "none"

\* The selector units and the register each reads.
SelectorUnits == {14, 15}
SelectorReg(u) == IF u = 14 THEN 3 ELSE 4
\* The decimal text of the levels 0, 10, ..., 40.
LevelText(l) ==
    CASE l = 0 -> <<"0">>
      [] l = 10 -> <<"1", "0">>
      [] l = 20 -> <<"2", "0">>
      [] l = 30 -> <<"3", "0">>
      [] l = 40 -> <<"4", "0">>
\* Position of x in list, counted from 0, for x in the list.
PlaceOf(list, x) == (CHOOSE i \in 1..Len(list) : list[i] = x) - 1
\* A whole frame of parameters with register a holding r.
ParamFrame(a, r) ==
    [command |-> "READ_PARAMS", length |-> FullCount["READ_PARAMS"],
     at |-> [BaseRegs EXCEPT ![a] = r]]
\* Lists of allowed raw values other than those of the table.
OtherMappings == {<<3, 1, 4>>, <<0, 1>>, <<2>>}

\* C25: a selector unit read from a frame whose register holds the raw value
\* at place i of the allowed list is handed on with nValue 10*i and sValue
\* "10*i"; with a raw value outside the list the unit is skipped and nothing
\* is handed on.  The same holds of the converter for other lists.
C25_SelectorMapping ==
    /\ \A u \in SelectorUnits :
           LET raw == frame.at[SelectorReg(u)]
               list == available_writes[SelectorReg(u)]
               known == \E i \in 1..Len(list) : list[i] = raw
           IN  /\ (JustPassed(u) /\ u \in Devices)
                     => /\ known
                        /\ candidate = [raised |-> FALSE,
                                        hasN |-> TRUE,
                                        nValue |-> 10 * PlaceOf(list, raw),
                                        hasS |-> TRUE,
                                        sValue |-> LevelText(10 * PlaceOf(list, raw))]
               /\ (JustSkipped(u) /\ SelectorReg(u) < frame.length) => ~known
               /\ (pollPc = "fields" /\ frame.command = "READ_PARAMS"
                        /\ frame.length = FullCount["READ_PARAMS"]
                        /\ outcome[u].state # "none" /\ u \in Devices)
                     => (outcome[u].state = "passed") = known
    /\ \A mapping \in OtherMappings : \A raw \in 0..4 :
           LET out == selector_switch_level_mapping(ParamFrame(3, raw), 3, mapping)
           IN  IF \E i \in 1..Len(mapping) : mapping[i] = raw
               THEN /\ ~out.raised
                    /\ out.nValue = 10 * PlaceOf(mapping, raw)
                    /\ out.sValue = LevelText(10 * PlaceOf(mapping, raw))
               ELSE out.raised

\* The list [0,1,2,3,4] with raw 2 has given (20, "20").
C25_Witness ==
    /\ JustPassed(14)
    /\ frame.at[3] = 2
    /\ candidate.nValue = 20
    /\ candidate.sValue = <<"2", "0">>

\* C26: for a selector unit, the value prepare_data_to_send gives for the
\* level that was read from raw value r is r; and for every level L of
\* 0, 10, ..., 10(n-1) the write gives a value from which the read converter
\* gives L again.
C26_SelectorRoundTrip ==
    /\ \A u \in SelectorUnits :
           (JustPassed(u) /\ u \in Devices)
               => LET w == prepare_data_to_send(u, "Set Level", candidate.nValue)
                  IN  /\ w.ok
                      /\ w.address = SelectorReg(u)
                      /\ w.value = frame.at[SelectorReg(u)]
    /\ \A u \in SelectorUnits :
           LET list == available_writes[SelectorReg(u)]
           IN  \A k \in 0..(Len(list) - 1) :
                   LET w == prepare_data_to_send(u, "Set Level", 10 * k)
                       back == Convert(u, ParamFrame(SelectorReg(u), w.value))
                   IN  /\ w.ok
                       /\ ~back.raised
                       /\ back.nValue = 10 * k
                       /\ back.sValue = LevelText(10 * k)

\* Heating mode was read as level 30 from raw 3, and writing level 30 sends 3.
C26_Witness ==
    /\ JustPassed(14)
    /\ frame.at[3] = 3
    /\ candidate.nValue = 30
    /\ prepare_data_to_send(14, "Set Level", 30).value = 3

\* The whole frame of calculated values is the one being converted.
WholeCalcul ==
    frame.command = "READ_CALCUL" /\ frame.length = FullCount["READ_CALCUL"]
\* The split power units: the register each reads and its valid modes.
SplitUnits == {24, 25, 27, 28}
SplitReg(u) == IF u \in {24, 25} THEN 268 ELSE 257
SplitModes(u) == IF u \in {24, 27} THEN {0} ELSE {1}
\* The one-decimal text of the register values the frames hold.
PowerText(v) ==
    CASE v = -1000 -> <<"-", "1", "0", "0", "0", ".", "0">>
      [] v = 0 -> <<"0", ".", "0">>
      [] v = 1000 -> <<"1", "0", "0", "0", ".", "0">>
      [] v = 2000 -> <<"2", "0", "0", "0", ".", "0">>
      [] v = 3000 -> <<"3", "0", "0", "0", ".", "0">>

\* C27: a split power unit is always handed on with an sValue alone: the
\* one-decimal text of its power register when the frame holds the registers
\* and register 80 is one of the unit's valid modes, "0.0" otherwise.
C27_ModeGatedPower ==
    \A u \in SplitUnits :
        (JustPassed(u) /\ u \in Devices)
            => /\ ~candidate.hasN
               /\ candidate.hasS
               /\ candidate.sValue
                     = IF WholeCalcul /\ frame.at[80] \in SplitModes(u)
                       THEN PowerText(frame.at[SplitReg(u)])
                       ELSE <<"0", ".", "0">>

\* With valid modes {0}, mode 0 has passed the power 1000 on.
C27_Witness ==
    /\ JustPassed(24)
    /\ WholeCalcul
    /\ frame.at[80] = 0
    /\ frame.at[268] = 1000
    /\ candidate.sValue = <<"1", "0", "0", "0", ".", "0">>

\* With valid modes {0}, mode 1 has given "0.0" for the power 1000.
C27_WitnessGated ==
    /\ JustPassed(24)
    /\ WholeCalcul
    /\ frame.at[80] = 1
    /\ frame.at[268] = 1000
    /\ candidate.sValue = <<"0", ".", "0">>

\* C28: the working mode unit is handed on with nValue 0 and with the text
\* 'No requirement' when the power register is not above the threshold 0.1,
\* whatever register 80 holds; otherwise with the name of the mode for the
\* codes 0..4 and 'No requirement' for any other code.
C28_TextState ==
    (JustPassed(18) /\ 18 \in Devices)
        => /\ WholeCalcul
           /\ candidate.hasN /\ candidate.nValue = 0
           /\ candidate.hasS
           /\ candidate.sValue
                 = IF frame.at[268] < 1
                   THEN NoRequirementText
                   ELSE CASE frame.at[80] = 0 -> HeatingModeText
                          [] frame.at[80] = 1 -> HotWaterModeText
                          [] frame.at[80] = 2 -> PoolModeText
                          [] frame.at[80] = 3 -> CoolingText
                          [] OTHER -> NoRequirementText

\* Hot water mode was reported while the pump drew power.
C28_Witness ==
    /\ JustPassed(18)
    /\ frame.at[80] = 1
    /\ frame.at[268] = 1000
    /\ candidate.sValue = HotWaterModeText
    /\ candidate.nValue = 0

\* The text of round(heat / power, 2) for the pairs the frames hold with
\* power above 0.
CopText(heat, power) ==
    CASE heat = 0 -> <<"0", ".", "0">>
      [] heat = 3000 /\ power = 1000 -> <<"3", ".", "0">>
      [] heat = 3000 /\ power = 3000 -> <<"1", ".", "0">>
      [] heat = 2000 /\ power = 1000 -> <<"2", ".", "0">>
      [] heat = 2000 /\ power = 3000 -> <<"0", ".", "6", "7">>
      [] heat = -1000 /\ power = 1000 -> <<"-", "1", ".", "0">>
      [] heat = -1000 /\ power = 3000 -> <<"-", "0", ".", "3", "3">>

\* C29: from a whole frame the COP unit is always handed on, with an sValue
\* alone: the text of heat_output / power_input rounded to two decimals when
\* power_input is above 0, and "0" when it is 0 or below.
C29_CopCalculator ==
    /\ (JustPassed(29) /\ 29 \in Devices)
          => /\ WholeCalcul
             /\ ~candidate.hasN
             /\ candidate.hasS
             /\ candidate.sValue
                   = IF frame.at[268] > 0
                     THEN CopText(frame.at[257], frame.at[268])
                     ELSE <<"0">>
    /\ (WholeCalcul /\ 29 \in Devices) => outcome[29].state # "skipped"

\* 3000 over 1000 has given "3.0".
C29_Witness ==
    /\ JustPassed(29)
    /\ frame.at[257] = 3000
    /\ frame.at[268] = 1000
    /\ candidate.sValue = <<"3", ".", "0">>

\* A power input of 0 has given "0".
C29_WitnessZero ==
    /\ JustPassed(29)
    /\ frame.at[257] = 3000
    /\ frame.at[268] = 0
    /\ candidate.sValue = <<"0">>

\* --------------------------------------------- claims about whole callbacks
\* C31: a callback the host has called comes back to the host, and so does
\* every call of process_socket_message inside it; no call makes more than
\* 2 connection attempts.
C31_EveryCycleEnds ==
    /\ (pc # "idle") ~> (pc = "idle")
    /\ (pc = "psm_enter") ~> (pc = "psm_ret")
    /\ [](pc \in PsmPcs => opens <= 2)

\* A heartbeat is about to return after its last call used up both attempts.
C31_Witness ==
    /\ cb = "onHeartbeat"
    /\ pc = "cb_ret"
    /\ attempt = 2
    /\ opens = 2

\* C32 as stated: when no callback is running (every callback the host
\* called has returned), no socket the plugin opened is open.
C32_NoSocketLeftOpen ==
    pc = "idle" => (active = "none" /\ orphans = 0)

\* The registers the read conversion of unit u takes from the frame.
Needs(u) ==
    LET e == devices_parameters_list[u]
    IN  CASE e.conv = "to_cop_calculator" -> {e.args[1], e.args[2]}
          [] e.conv = "to_instant_power_split" -> {e.address[1], e.args[1]}
          [] e.conv = "to_text_state" -> {e.address[1], e.args[1]}
          [] e.conv = "calculate_temp_diff" -> {e.address[1], e.address[2]}
          [] OTHER -> {e.address[1]}

\* C33 as stated: a unit whose conversion needs a register the frame is too
\* short to hold is not handed to update_device in that cycle.
C33_ShortFrameNothingPublished ==
    \A u \in DOMAIN outcome :
        (/\ pollPc = "fields"
         /\ outcome[u].state # "none"
         /\ outcome[u].cat = frame.command
         /\ \E a \in Needs(u) : a >= frame.length)
            => outcome[u].state # "passed"

\* Unit u was handed on in the running loop with a power other than "0.0".
NonZero(u) ==
    /\ pollPc = "fields"
    /\ outcome[u].state = "passed"
    /\ outcome[u].cat = frame.command
    /\ outcome[u].cand.sValue # <<"0", ".", "0">>
\* The split units in pairs, each with the unit of its total.
SplitPairs == {<<24, 25, 23>>, <<27, 28, 26>>}

\* C37: of the candidates one loop over a frame hands on, the heating and
\* the hot water share of a pair are never both other than "0.0", and one
\* that is other than "0.0" is the same text as the total of the pair.
C37_SplitExclusive ==
    \A p \in SplitPairs :
        /\ ~(NonZero(p[1]) /\ NonZero(p[2]))
        /\ \A k \in 1..2 :
               NonZero(p[k])
                   => /\ outcome[p[3]].state = "passed"
                      /\ outcome[p[3]].cand.sValue = outcome[p[k]].cand.sValue

\* In heating mode the whole power went to 'Power heating' and the whole
\* heat output to 'Heat out heating'.
C37_Witness ==
    /\ LoopOver
    /\ frame.at[80] = 0
    /\ outcome[23].cand.sValue = <<"1", "0", "0", "0", ".", "0">>
    /\ outcome[24].cand.sValue = <<"1", "0", "0", "0", ".", "0">>
    /\ outcome[25].cand.sValue = <<"0", ".", "0">>
    /\ outcome[27].cand.sValue = <<"3", "0", "0", "0", ".", "0">>
    /\ outcome[28].cand.sValue = <<"0", ".", "0">>

\* ------------------------------------------ claims about the stored values
\* C34: after a call of update_device in which Devices[Unit].Update did not
\* raise, the stored nValue is the candidate's and the stored sValue and the
\* candidate's sValue are the same after _normalize_value.
C34_StoredFollowsCandidate ==
    (decision.called /\ ~decision.failed)
        => /\ stored.nValue = decision.cand.nValue
           /\ _normalize_value(stored.sValue) = _normalize_value(decision.cand.sValue)

\* An update was suppressed: the device keeps "21.0" for the reading "21.04".
C34_Witness ==
    /\ decision.called
    /\ ~decision.update
    /\ stored.sValue = <<"2", "1", ".", "0">>
    /\ decision.cand.sValue = <<"2", "1", ".", "0", "4">>
    /\ stored.nValue = decision.cand.nValue

\* C38: a call of needs_update for a graphing device that has no timestamp
\* yet accepts the update whatever the candidate is and records the time of
\* the call; a later call with an unchanged candidate made less than the
\* interval after the recorded time is not accepted.
C38_FirstCheckAccepted ==
    (decision.called /\ GraphingByType(dev))
        => /\ ~decision.recorded
               => /\ decision.update
                  /\ dev.ID \in DOMAIN last_update_times
                  /\ last_update_times[dev.ID] = decision.at
           /\ (decision.recorded /\ ~CandidateDiffers
                  /\ decision.at - decision.last < graph_update_interval)
               => /\ ~decision.update
                  /\ last_update_times[dev.ID] = decision.last

\* The first call for a graphing device came with the stored value itself
\* and was accepted.
C38_Witness ==
    /\ decision.called
    /\ GraphingByType(dev)
    /\ ~decision.recorded
    /\ decision.cand = decision.before
    /\ decision.update
    /\ decision.reason = "Interval update"
    /\ last_update_times[dev.ID] = decision.at

\* ------------------------------------------- claims about commands and start
\* The selector units and the number of allowed values of each.
SelectorSize(u) == Len(AvailableWrites[WritUnits[u].idx])

\* C35 as stated: an onCommand for a selector unit with a Level below 0 or
\* above 10*(n-1) sends no write request.
C35_OutOfRangeLevelNoWrite ==
    (/\ cb = "onCommand"
     /\ argument_list.Unit \in {14, 15}
     /\ \/ argument_list.Level < 0
        \/ argument_list.Level > 10 * (SelectorSize(argument_list.Unit) - 1))
        => cbWrites = 0 /\ command # "WRIT_PARAMS"

\* C36: an onCommand for a unit that is not in dev_lists['WRIT_PARAMS'] makes
\* no call of process_socket_message, neither the write nor the poll, opens
\* no connection and exchanges no word, and comes to its return.
C36_NoWriteConversionNoEffect ==
    (cb = "onCommand" /\ argument_list.Unit \notin DOMAIN WritUnits)
        => /\ pc = "cb_ret"
           /\ caller = "" /\ command = ""
           /\ cbOpens = 0 /\ opens = 0
           /\ ~cbIO
           /\ cbWrites = 0
           /\ delivered = NoDelivery
           /\ active = "none"

\* A command for the read-only unit 1 is about to return.
C36_Witness ==
    /\ cb = "onCommand"
    /\ argument_list.Unit = 1
    /\ pc = "cb_ret"

\* C39: an onStart whose connection attempt failed makes no call of
\* process_socket_message and leaves the plugin running; a heartbeat after it
\* runs update_all through both categories, every call beginning without a
\* connection and using its socket for one exchange, and a frame with a
\* count above 0 is handed to the device loop.
C39_FailedStartStaysOperational ==
    probe = "failed"
        => /\ cb = "onStart"
               => /\ pc = "cb_ret"
                  /\ caller = "" /\ idx = 0 /\ opens = 0
                  /\ ~cbIO
                  /\ delivered = NoDelivery
                  /\ active = "none"
           /\ phase \in {"running", "stopped"}
           /\ (pc = "idle" /\ phase = "running") => ENABLED OnHeartbeat
           /\ cb = "onHeartbeat"
               => /\ caller = "update_all"
                  /\ idx \in 1..Len(PollOrder)
                  /\ command = PollOrder[idx]
                  /\ pc = "psm_enter" => active = "none"
                  /\ connUse <= 1
                  /\ pc = "cb_ret"
                        => /\ idx = Len(PollOrder)
                           /\ result.length > 0
                                 => delivered[command] = result.data

\* After a failed start a heartbeat has got a frame of each category.
C39_Witness ==
    /\ probe = "failed"
    /\ cb = "onHeartbeat"
    /\ pc = "cb_ret"
    /\ Len(delivered["READ_CALCUL"]) > 0
    /\ Len(delivered["READ_PARAMS"]) > 0

====
